---------------------------- MODULE Spec2Model ----------------------------
(***************************************************************************)
(* Model of the ICT signal engine, src/core/technical_analysis.py          *)
(* (class RealICTAnalyzer).                                                *)
(*                                                                         *)
(* Number representation.  The engine computes on Python floats; the model *)
(* computes on integers in fixed units:                                    *)
(*   - scores and confidences inside the decision: hundredths of a point   *)
(*     (6500 is the score 65.0);                                           *)
(*   - a returned confidence (round(confidence, 1)): tenths of a point;    *)
(*   - prices of the decision engine: cents; intermediate trade levels in  *)
(*     units of 0.00005 (200 units = 1 cent), so that 1.5 x ATR and        *)
(*     3.5 x ATR are integers;                                             *)
(*   - risk_reward (round(reward / risk, 2)): hundredths;                  *)
(*   - prices of bar series: whole dollars; the units of the detectors     *)
(*     and of the bias are stated with their definitions.                  *)
(* round(x, n) is modelled as round-half-even on the exact decimal value.  *)
(***************************************************************************)
EXTENDS Integers, Sequences, FiniteSets, TLC

VARIABLES
    pc,        \* position of the call: "ready" | "returned"
    call,      \* what the call works on: the analysis results (Spec), the
               \* upstream frames (SpecEngine) or the detector named (SpecDetect)
    clock,     \* wall clock of the call, minute of the day (0..1439)
    locals,    \* final values of the locals of _make_final_signal_decision
    response,  \* the value returned by the call
    frame,     \* the DataFrame handed to a detector: index kind, bars, columns
    log        \* the signals returned by generate_real_ict_signal so far

vars == <<pc, call, clock, locals, response, frame, log>>

---------------------------------------------------------------------------
(* Arithmetic helpers                                                      *)

Min(a, b) == IF a <= b THEN a ELSE b

Max(a, b) == IF a >= b THEN a ELSE b

Abs(a) == IF a >= 0 THEN a ELSE -a

\* Python round(): nearest integer multiple, ties to the even one.
\* n / d for d > 0, rounded to an integer.
RoundHalfEven(n, d) ==
    LET q == n \div d
        r == n % d
    IN  IF 2 * r < d THEN q
        ELSE IF 2 * r > d THEN q + 1
        ELSE IF q % 2 = 0 THEN q ELSE q + 1

---------------------------------------------------------------------------
(* Bounds of the checked input space                                       *)

\* Scores are drawn every ScoreStep hundredths of a point from [0, 100].
ScoreStep == 25

\* Largest confluence count drawn (the code counts at most 10 distinct tags).
MaxConfluence == 6

\* Wall clock values are drawn every ClockStep minutes.
ClockStep == 360

(* Program constants                                                       *)

MIN_RR_RATIO == 150                        \* 1.5, in hundredths

NEUTRAL_MTF_CONFIDENCE_PENALTY == 1500     \* 15 points

OPPOSING_MTF_CONFIDENCE_PENALTY == 3000    \* 30 points

RR_CONFIDENCE_PENALTY == 4000              \* the 40 of `confidence - 40`

CONFIDENCE_FLOOR == 4000                   \* the 40 of `confidence < 40`

BASE_PRICE == 328000                       \* base_price = 3280.0, in cents

MINUTES_PER_DAY == 1440

---------------------------------------------------------------------------
(* _make_final_signal_decision, lines 1373-1484.                           *)
(* signal_data is the dict of _calculate_signal_components; a dict that    *)
(* lacks 'signal_score' raises KeyError at line 1380 and takes the except  *)
(* branch.                                                                 *)

\* Mutant: the looser BUY condition tests score > 60.
ClassifyScore_LooseBuyStrict(score, confluence) ==
    IF score >= 6500 /\ confluence >= 3
    THEN [direction |-> "BUY",
          confidence |-> Min(score + confluence * 200, 9500)]
    ELSE IF score <= 3500 /\ confluence >= 3
    THEN [direction |-> "SELL",
          confidence |-> Min((10000 - score) + confluence * 200, 9500)]
    ELSE IF score > 6000
    THEN [direction |-> "BUY",
          confidence |-> Min(score + confluence * 100, 8500)]
    ELSE IF score <= 4000
    THEN [direction |-> "SELL",
          confidence |-> Min((10000 - score) + confluence * 100, 8500)]
    ELSE [direction |-> "HOLD", confidence |-> 5000]

\* lines 1383-1398: the direction and confidence of the score classification
ClassifyScore(score, confluence) ==
    IF score >= 6500 /\ confluence >= 3
    THEN [direction |-> "BUY",
          confidence |-> Min(score + confluence * 200, 9500)]
    ELSE IF score <= 3500 /\ confluence >= 3
    THEN [direction |-> "SELL",
          confidence |-> Min((10000 - score) + confluence * 200, 9500)]
    ELSE IF score >= 6000
    THEN [direction |-> "BUY",
          confidence |-> Min(score + confluence * 100, 8500)]
    ELSE IF score <= 4000
    THEN [direction |-> "SELL",
          confidence |-> Min((10000 - score) + confluence * 100, 8500)]
    ELSE [direction |-> "HOLD", confidence |-> 5000]

\* Mutant: an opposing bias costs only the 15 points of a neutral one.
MtfPenalty_OpposingAsNeutral(direction, bias) ==
    IF direction = "HOLD" THEN 0
    ELSE IF bias = "NEUTRAL" THEN NEUTRAL_MTF_CONFIDENCE_PENALTY
    ELSE IF (direction = "BUY" /\ bias = "BEARISH")
            \/ (direction = "SELL" /\ bias = "BULLISH")
    THEN NEUTRAL_MTF_CONFIDENCE_PENALTY
    ELSE 0

\* lines 1400-1408: the penalty the multi-timeframe bias takes off
MtfPenalty(direction, bias) ==
    IF direction = "HOLD" THEN 0
    ELSE IF bias = "NEUTRAL" THEN NEUTRAL_MTF_CONFIDENCE_PENALTY
    ELSE IF (direction = "BUY" /\ bias = "BEARISH")
            \/ (direction = "SELL" /\ bias = "BULLISH")
    THEN OPPOSING_MTF_CONFIDENCE_PENALTY
    ELSE 0

\* lines 1402-1408: the reason appended with the penalty
MtfReasons(direction, bias) ==
    IF direction = "HOLD" THEN << >>
    ELSE IF bias = "NEUTRAL" THEN << "Neutral MTF bias reduced confidence." >>
    ELSE IF (direction = "BUY" /\ bias = "BEARISH")
            \/ (direction = "SELL" /\ bias = "BULLISH")
    THEN << "Opposing MTF bias significantly reduced confidence." >>
    ELSE << >>

\* line 1410
ClampConfidence(confidence) == Max(0, Min(confidence, 9500))

\* lines 1415-1418: the ATR used, in units of 0.00005; price in cents.
\* price * 0.01 is price cents / 100 = 2 * price units.
EffectiveATR(indicators, price) ==
    IF "atr_14" \notin DOMAIN indicators THEN 2 * price
    ELSE IF indicators.atr_14 = 0 THEN 2 * price
    ELSE 200 * indicators.atr_14

\* Mutant: a SELL gets the levels of a BUY instead of their mirror image.
TradingLevels_SellAsBuy(direction, price, atr) ==
    LET p == 200 * price
    IN  IF direction = "BUY" \/ direction = "SELL"
        THEN [entry_zone |-> [low |-> RoundHalfEven(price * 999, 1000),
                              high |-> RoundHalfEven(price * 1001, 1000)],
              stop_loss |-> p - (atr * 3) \div 2,
              tp1 |-> p + atr * 2,
              tp2 |-> p + (atr * 7) \div 2]
        ELSE [entry_zone |-> [low |-> price, high |-> price],
              stop_loss |-> p, tp1 |-> p, tp2 |-> p]

\* Mutant: the first target is placed at 3 x ATR.
TradingLevels_WideTarget(direction, price, atr) ==
    LET p == 200 * price
    IN  IF direction = "BUY"
        THEN [entry_zone |-> [low |-> RoundHalfEven(price * 999, 1000),
                              high |-> RoundHalfEven(price * 1001, 1000)],
              stop_loss |-> p - (atr * 3) \div 2,
              tp1 |-> p + atr * 3,
              tp2 |-> p + (atr * 7) \div 2]
        ELSE IF direction = "SELL"
        THEN [entry_zone |-> [low |-> RoundHalfEven(price * 999, 1000),
                              high |-> RoundHalfEven(price * 1001, 1000)],
              stop_loss |-> p + (atr * 3) \div 2,
              tp1 |-> p - atr * 3,
              tp2 |-> p - (atr * 7) \div 2]
        ELSE [entry_zone |-> [low |-> price, high |-> price],
              stop_loss |-> p, tp1 |-> p, tp2 |-> p]

\* lines 1420-1437: entry zone (cents) and levels (units of 0.00005)
TradingLevels(direction, price, atr) ==
    LET p == 200 * price
    IN  IF direction = "BUY"
        THEN [entry_zone |-> [low |-> RoundHalfEven(price * 999, 1000),
                              high |-> RoundHalfEven(price * 1001, 1000)],
              stop_loss |-> p - (atr * 3) \div 2,
              tp1 |-> p + atr * 2,
              tp2 |-> p + (atr * 7) \div 2]
        ELSE IF direction = "SELL"
        THEN [entry_zone |-> [low |-> RoundHalfEven(price * 999, 1000),
                              high |-> RoundHalfEven(price * 1001, 1000)],
              stop_loss |-> p + (atr * 3) \div 2,
              tp1 |-> p - atr * 2,
              tp2 |-> p - (atr * 7) \div 2]
        ELSE [entry_zone |-> [low |-> price, high |-> price],
              stop_loss |-> p, tp1 |-> p, tp2 |-> p]

\* lines 1440-1444: round(reward / risk, 2), 0 for HOLD or a risk <= 0.00001
RiskReward(direction, price, levels) ==
    LET p      == 200 * price
        risk   == Abs(p - levels.stop_loss)
        reward == Abs(levels.tp1 - p)
    IN  IF direction = "HOLD" THEN 0
        ELSE IF risk * 5 > 1 THEN RoundHalfEven(100 * reward, risk)
        ELSE 0

\* line 1447: whether the risk filter fires
RRFilterFires(direction, risk_reward) ==
    direction # "HOLD" /\ risk_reward < MIN_RR_RATIO

\* Mutant: the filter takes the penalty off but leaves the direction.
ApplyRRFilter_KeepsDirection(direction, confidence, risk_reward) ==
    IF RRFilterFires(direction, risk_reward)
    THEN [direction |-> direction,
          confidence |-> Max(0, confidence - RR_CONFIDENCE_PENALTY),
          reasons |-> << "Poor Risk/Reward" >>]
    ELSE [direction |-> direction, confidence |-> confidence, reasons |-> << >>]

\* Mutant: the penalty is taken off without the max(0, ...).
ApplyRRFilter_Unclamped(direction, confidence, risk_reward) ==
    IF RRFilterFires(direction, risk_reward)
    THEN [direction |-> "HOLD",
          confidence |-> confidence - RR_CONFIDENCE_PENALTY,
          reasons |-> << "Poor Risk/Reward" >>]
    ELSE [direction |-> direction, confidence |-> confidence, reasons |-> << >>]

\* Mutant: the filter takes 30 points off instead of 40.
ApplyRRFilter_WrongPenalty(direction, confidence, risk_reward) ==
    IF RRFilterFires(direction, risk_reward)
    THEN [direction |-> "HOLD",
          confidence |-> Max(0, confidence - 3000),
          reasons |-> << "Poor Risk/Reward" >>]
    ELSE [direction |-> direction, confidence |-> confidence, reasons |-> << >>]

\* lines 1447-1454: direction, confidence and reasons after the risk filter
ApplyRRFilter(direction, confidence, risk_reward) ==
    IF RRFilterFires(direction, risk_reward)
    THEN [direction |-> "HOLD",
          confidence |-> Max(0, confidence - RR_CONFIDENCE_PENALTY),
          reasons |->
              << "Poor Risk/Reward" >> \o
              (IF Max(0, confidence - RR_CONFIDENCE_PENALTY) < 3000
               THEN << "Signal changed to HOLD due to very low confidence after RR filter." >>
               ELSE << >>)]
    ELSE [direction |-> direction, confidence |-> confidence, reasons |-> << >>]

\* lines 1457-1460: the confidence floor
ApplyConfidenceFloor(direction, confidence) ==
    IF confidence < CONFIDENCE_FLOOR /\ direction # "HOLD"
    THEN [direction |-> "HOLD",
          reasons |-> << "Confidence too low. Signal changed to HOLD." >>]
    ELSE [direction |-> direction, reasons |-> << >>]

\* Mutant: the function returns the classification without the risk
\* management of lines 1439-1460.
DecisionLocals_Ungated(signal_data, current_price_real, indicators_real, mtf_bias_real) ==
    LET score      == signal_data.signal_score
        confluence == signal_data.confluence_count
        step3      == ClassifyScore(score, confluence)
        bias       == mtf_bias_real.overall_bias
        penalised  == ClampConfidence(step3.confidence
                                      - MtfPenalty(step3.direction, bias))
        atr        == EffectiveATR(indicators_real, current_price_real)
        levels     == TradingLevels(step3.direction, current_price_real, atr)
        rr         == RiskReward(step3.direction, current_price_real, levels)
    IN  [raised            |-> FALSE,
         class_direction   |-> step3.direction,
         class_confidence  |-> step3.confidence,
         prefilter_confidence |-> penalised,
         atr               |-> atr,
         levels            |-> levels,
         risk_reward       |-> rr,
         rr_filter_fired   |-> FALSE,
         postfilter_confidence |-> penalised,
         direction         |-> step3.direction,
         confidence        |-> penalised,
         reasons           |-> signal_data.reasons
                               \o MtfReasons(step3.direction, bias)]

\* The locals of the try body when it returns (lines 1380-1471).
DecisionLocals(signal_data, current_price_real, indicators_real, mtf_bias_real) ==
    LET score      == signal_data.signal_score
        confluence == signal_data.confluence_count
        step3      == ClassifyScore(score, confluence)
        bias       == mtf_bias_real.overall_bias
        penalised  == ClampConfidence(step3.confidence
                                      - MtfPenalty(step3.direction, bias))
        atr        == EffectiveATR(indicators_real, current_price_real)
        levels     == TradingLevels(step3.direction, current_price_real, atr)
        rr         == RiskReward(step3.direction, current_price_real, levels)
        filtered   == ApplyRRFilter(step3.direction, penalised, rr)
        floored    == ApplyConfidenceFloor(filtered.direction, filtered.confidence)
    IN  [raised            |-> FALSE,
         class_direction   |-> step3.direction,
         class_confidence  |-> step3.confidence,
         prefilter_confidence |-> penalised,
         atr               |-> atr,
         levels            |-> levels,
         risk_reward       |-> rr,
         rr_filter_fired   |-> RRFilterFires(step3.direction, rr),
         postfilter_confidence |-> filtered.confidence,
         direction         |-> floored.direction,
         confidence        |-> filtered.confidence,
         reasons           |-> signal_data.reasons
                               \o MtfReasons(step3.direction, bias)
                               \o filtered.reasons \o floored.reasons]

\* lines 1462-1471: the dict returned by the try body.  Confidence in tenths,
\* levels in cents, risk_reward in hundredths.
DecisionResult(loc) ==
    [direction   |-> loc.direction,
     confidence  |-> RoundHalfEven(loc.confidence, 10),
     entry_zone  |-> loc.levels.entry_zone,
     stop_loss   |-> RoundHalfEven(loc.levels.stop_loss, 200),
     tp1         |-> RoundHalfEven(loc.levels.tp1, 200),
     tp2         |-> RoundHalfEven(loc.levels.tp2, 200),
     risk_reward |-> loc.risk_reward,
     reasons     |-> loc.reasons]

\* lines 1473-1484: the dict returned by the except branch
DecisionErrorDefault ==
    [direction   |-> "HOLD",
     confidence  |-> 500,
     entry_zone  |-> [low |-> BASE_PRICE, high |-> BASE_PRICE],
     stop_loss   |-> BASE_PRICE,
     tp1         |-> BASE_PRICE,
     tp2         |-> BASE_PRICE,
     risk_reward |-> 0,
     reasons     |-> << "Error in signal calculation" >>]

\* Whether the try body raises: signal_data['signal_score'] on a dict without it.
DecisionRaises(signal_data) == "signal_score" \notin DOMAIN signal_data

MakeFinalSignalDecision(signal_data, current_price_real, indicators_real, mtf_bias_real) ==
    IF DecisionRaises(signal_data)
    THEN DecisionErrorDefault
    ELSE DecisionResult(DecisionLocals(signal_data, current_price_real,
                                       indicators_real, mtf_bias_real))

---------------------------------------------------------------------------
(* The rest of the engine call: fallback signal, session, quality label,   *)
(* and the response of generate_real_ict_signal.  Prices of a response are *)
(* in units of 1/18 cent, in which the fallback price is exact.            *)

Cents(c) == 18 * c

\* _get_trading_session, lines 1709-1734; `now` in minutes of the day (UTC).
\* The session table is scanned in its order: SYDNEY 21:00-06:00 (crosses
\* midnight), TOKYO 00:00-09:00, LONDON 08:00-17:00, NEW_YORK 13:00-22:00.
GetTradingSession(now) ==
    IF now >= 21 * 60 \/ now <= 6 * 60 THEN "SYDNEY"
    ELSE IF 0 <= now /\ now <= 9 * 60 THEN "TOKYO"
    ELSE IF 8 * 60 <= now /\ now <= 17 * 60 THEN "LONDON"
    ELSE IF 13 * 60 <= now /\ now <= 22 * 60 THEN "NEW_YORK"
    ELSE "OFF_HOURS"

\* Mutant: the FAIR row asks for a confidence of 50 instead of 55.
AssessSignalQuality_FairAt50(confidence, confluence_count) ==
    IF confidence >= 850 /\ confluence_count >= 5 THEN "EXCELLENT"
    ELSE IF confidence >= 750 /\ confluence_count >= 4 THEN "VERY_GOOD"
    ELSE IF confidence >= 650 /\ confluence_count >= 3 THEN "GOOD"
    ELSE IF confidence >= 500 /\ confluence_count >= 2 THEN "FAIR"
    ELSE "POOR"

\* _assess_signal_quality, lines 1762-1773; confidence in tenths
AssessSignalQuality(confidence, confluence_count) ==
    IF confidence >= 850 /\ confluence_count >= 5 THEN "EXCELLENT"
    ELSE IF confidence >= 750 /\ confluence_count >= 4 THEN "VERY_GOOD"
    ELSE IF confidence >= 650 /\ confluence_count >= 3 THEN "GOOD"
    ELSE IF confidence >= 550 /\ confluence_count >= 2 THEN "FAIR"
    ELSE "POOR"

\* lines 1780-1786: fallback_price = 3280 + (minute / 1440 - 0.5) * 20
\*   = 3270 + minute / 72 dollars = 327000 + 25 * minute / 18 cents.
FallbackPrice(now) == Cents(BASE_PRICE - 1000) + 25 * now

\* EnhancedFallbackSignal answering with confidence 0
EnhancedFallbackSignal_ZeroConfidence(now) ==
    [signal          |-> "HOLD",
     confidence      |-> 0,
     current_price   |-> Cents(RoundHalfEven(FallbackPrice(now), 18)),
     multi_timeframe |-> [overall_bias |-> "NEUTRAL", strength |-> 0,
                          timeframes_analyzed |-> << >>,
                          primary_timeframe |-> "FALLBACK"],
     trading_levels  |-> [entry_zone |-> [low |-> FallbackPrice(now),
                                          high |-> FallbackPrice(now)],
                          stop_loss |-> FallbackPrice(now),
                          take_profit_1 |-> FallbackPrice(now),
                          take_profit_2 |-> FallbackPrice(now),
                          risk_reward_ratio |-> 0],
     signal_reasoning   |-> << "Market data unavailable", "Using fallback analysis" >>,
     confluence_factors |-> 0,
     signal_quality     |-> "POOR",
     market_context     |-> [session |-> GetTradingSession(now)],
     analysis_time      |-> now,
     data_quality       |-> "FALLBACK_MODE"]

\* _get_enhanced_fallback_signal, lines 1775-1850
EnhancedFallbackSignal(now) ==
    [signal          |-> "HOLD",
     confidence      |-> 500,
     current_price   |-> Cents(RoundHalfEven(FallbackPrice(now), 18)),
     multi_timeframe |-> [overall_bias |-> "NEUTRAL", strength |-> 0,
                          timeframes_analyzed |-> << >>,
                          primary_timeframe |-> "FALLBACK"],
     trading_levels  |-> [entry_zone |-> [low |-> FallbackPrice(now),
                                          high |-> FallbackPrice(now)],
                          stop_loss |-> FallbackPrice(now),
                          take_profit_1 |-> FallbackPrice(now),
                          take_profit_2 |-> FallbackPrice(now),
                          risk_reward_ratio |-> 0],
     signal_reasoning   |-> << "Market data unavailable", "Using fallback analysis" >>,
     confluence_factors |-> 0,
     signal_quality     |-> "POOR",
     market_context     |-> [session |-> GetTradingSession(now)],
     analysis_time      |-> now,
     data_quality       |-> "FALLBACK_MODE"]

\* lines 1103-1173: the response built from the decision
BuildResponse(final_signal, signal_data, current_price, mtf_bias, analyzed, primary_tf, now) ==
    [signal          |-> final_signal.direction,
     confidence      |-> final_signal.confidence,
     current_price   |-> Cents(current_price),
     multi_timeframe |-> [overall_bias |-> mtf_bias.overall_bias,
                          strength |-> mtf_bias.strength,
                          timeframes_analyzed |-> analyzed,
                          primary_timeframe |-> primary_tf],
     trading_levels  |-> [entry_zone |-> [low |-> Cents(final_signal.entry_zone.low),
                                          high |-> Cents(final_signal.entry_zone.high)],
                          stop_loss |-> Cents(final_signal.stop_loss),
                          take_profit_1 |-> Cents(final_signal.tp1),
                          take_profit_2 |-> Cents(final_signal.tp2),
                          risk_reward_ratio |-> final_signal.risk_reward],
     signal_reasoning   |-> final_signal.reasons,
     confluence_factors |-> signal_data.confluence_count,
     signal_quality     |-> AssessSignalQuality(final_signal.confidence,
                                                signal_data.confluence_count),
     market_context     |-> [session |-> GetTradingSession(now)],
     analysis_time      |-> now,
     data_quality       |-> "REAL_MARKET_DATA"]

---------------------------------------------------------------------------
(* Specification Spec: one call of generate_real_ict_signal, from the      *)
(* results of the analysis stages on.  The call works either on no usable  *)
(* market data (lines 1047-1049, 1055-1057) or on the outputs of           *)
(* _calculate_signal_components and the indicator bank, drawn from the     *)
(* bounded sets below.                                                     *)

Scores == { s \in 0..10000 : s % ScoreStep = 0 }

Confluences == 0..MaxConfluence

Biases == { "BULLISH", "BEARISH", "NEUTRAL" }

\* current prices, in cents
Prices == { 328000, 195055 }

\* the indicator dicts: atr_14 missing, zero, or 12.50
IndicatorDicts == { [rsi_14 |-> 50], [atr_14 |-> 0], [atr_14 |-> 1250] }

Clocks == { m \in 0..(MINUTES_PER_DAY - 1) : m % ClockStep = 0 }

ComponentReasons == << "EMAs aligned bullish", "RSI oversold" >>

SignalDatas ==
    [signal_score : Scores, confluence_count : Confluences,
     reasons : { ComponentReasons }]
    \cup { [confluence_count |-> 0, reasons |-> << "Error in analysis" >>] }

\* the bias dicts; strength in tenths
MtfBiases == [overall_bias : Biases, strength : { 500 }]

Calls ==
    { [data |-> "none"] }
    \cup [data : { "ok" }, signal_data : SignalDatas, current_price : Prices,
          indicators : IndicatorDicts, mtf_bias : MtfBiases]

NoLocals == [raised |-> FALSE, class_direction |-> "NONE"]

NoResponse == [signal |-> "NONE"]

NoFrame == [index |-> "none", bars |-> << >>, columns |-> {}]

Init ==
    /\ pc = "ready"
    /\ call \in Calls
    /\ clock \in Clocks
    /\ locals = NoLocals
    /\ response = NoResponse
    /\ frame = NoFrame
    /\ log = << >>

\* lines 1047-1049 and 1055-1057: no usable data, the fallback is returned
ReturnFallback ==
    /\ pc = "ready"
    /\ call.data = "none"
    /\ response' = EnhancedFallbackSignal(clock)
    /\ log' = Append(log, response')
    /\ pc' = "returned"
    /\ UNCHANGED <<call, clock, locals, frame>>

\* lines 1094-1178: decision and response
ReturnSignal ==
    /\ pc = "ready"
    /\ call.data = "ok"
    /\ locals' = IF DecisionRaises(call.signal_data)
                 THEN [raised |-> TRUE, class_direction |-> "NONE"]
                 ELSE DecisionLocals(call.signal_data, call.current_price,
                                     call.indicators, call.mtf_bias)
    /\ response' = BuildResponse(
                       MakeFinalSignalDecision(call.signal_data, call.current_price,
                                               call.indicators, call.mtf_bias),
                       call.signal_data, call.current_price, call.mtf_bias,
                       << "1h" >>, "1h", clock)
    /\ log' = Append(log, response')
    /\ pc' = "returned"
    /\ UNCHANGED <<call, clock, frame>>

Next == ReturnFallback \/ ReturnSignal

Spec == Init /\ [][Next]_vars

---------------------------------------------------------------------------
(* Bar series.  A series is the DataFrame a detector receives: its index   *)
(* kind ("datetime" for the frames of yfinance, "range" for an integer     *)
(* index), and its bars, oldest first, each with integer Open, High, Low,  *)
(* Close and Volume.  Bar k of the model (1..Len) is row k - 1 of the      *)
(* frame.  Timestamps of a datetime index are k hours.                     *)

\* The elements of a set of integers, in increasing order.
SeqOfSet(S) ==
    LET RECURSIVE Build(_)
        Build(T) == IF T = {} THEN << >>
                    ELSE LET x == CHOOSE y \in T : \A z \in T : y <= z
                         IN  << x >> \o Build(T \ { x })
    IN  Build(S)

\* s.tail(n)
TailRows(s, n) ==
    IF Len(s) <= n THEN s ELSE SubSeq(s, Len(s) - n + 1, Len(s))

\* s[:n]
HeadRows(s, n) == IF Len(s) <= n THEN s ELSE SubSeq(s, 1, n)

\* rolling(window = 2 * radius + 1, center = True).max() == column, lines
\* 152 and 500-502: the rows whose window lies inside the frame and whose
\* value is the largest of the window; the first and last `radius` rows
\* have no full window (NaN) and compare unequal.
SwingHighRows(bars, radius) ==
    { k \in 1..Len(bars) :
        /\ k - radius >= 1
        /\ k + radius <= Len(bars)
        /\ \A j \in (k - radius)..(k + radius) : bars[j].High <= bars[k].High }

\* rolling(...).min() == column, lines 153 and 505-507
SwingLowRows(bars, radius) ==
    { k \in 1..Len(bars) :
        /\ k - radius >= 1
        /\ k + radius <= Len(bars)
        /\ \A j \in (k - radius)..(k + radius) : bars[j].Low >= bars[k].Low }

\* number of i in 2..Len(s) with s[i] > s[i - 1], lines 170-178
CountRises(s) == Cardinality({ i \in 2..Len(s) : s[i] > s[i - 1] })

\* number of i in 2..Len(s) with s[i] < s[i - 1], lines 184-192
CountFalls(s) == Cardinality({ i \in 2..Len(s) : s[i] < s[i - 1] })

\* StructureFromSwings with each vote worth 10 instead of 25
StructureFromSwings_LightVotes(swing_highs, swing_lows) ==
    IF Len(swing_highs) < 2 \/ Len(swing_lows) < 2
    THEN [structure |-> "RANGING", strength |-> 30]
    ELSE
        LET hh_count == Cardinality({ i \in 2..Len(TailRows(swing_highs, 4)) :
                            TailRows(swing_highs, 4)[i] > TailRows(swing_highs, 4)[i - 1] })
            hl_count == Cardinality({ i \in 2..Len(TailRows(swing_lows, 4)) :
                            TailRows(swing_lows, 4)[i] > TailRows(swing_lows, 4)[i - 1] })
            lh_count == Cardinality({ i \in 2..Len(TailRows(swing_highs, 4)) :
                            TailRows(swing_highs, 4)[i] < TailRows(swing_highs, 4)[i - 1] })
            ll_count == Cardinality({ i \in 2..Len(TailRows(swing_lows, 4)) :
                            TailRows(swing_lows, 4)[i] < TailRows(swing_lows, 4)[i - 1] })
        IN  IF hh_count + hl_count > lh_count + ll_count /\ hh_count + hl_count >= 2
            THEN [structure |-> "BULLISH",
                  strength |-> Min((hh_count + hl_count) * 10, 100)]
            ELSE IF lh_count + ll_count > hh_count + hl_count /\ lh_count + ll_count >= 2
            THEN [structure |-> "BEARISH",
                  strength |-> Min((lh_count + ll_count) * 10, 100)]
            ELSE [structure |-> "RANGING", strength |-> 40]

\* lines 159-217: the structure from the swing highs and lows
StructureFromSwings(swing_highs, swing_lows) ==
    IF Len(swing_highs) < 2 \/ Len(swing_lows) < 2
    THEN [structure |-> "RANGING", strength |-> 30]
    ELSE
        LET recent_highs  == TailRows(swing_highs, 4)
            recent_lows   == TailRows(swing_lows, 4)
            hh_count      == CountRises(recent_highs)
            hl_count      == CountRises(recent_lows)
            lh_count      == CountFalls(recent_highs)
            ll_count      == CountFalls(recent_lows)
            bullish_score == hh_count + hl_count
            bearish_score == lh_count + ll_count
        IN  IF bullish_score > bearish_score /\ bullish_score >= 2
            THEN [structure |-> "BULLISH",
                  strength |-> Min(bullish_score * 25, 100)]
            ELSE IF bearish_score > bullish_score /\ bearish_score >= 2
            THEN [structure |-> "BEARISH",
                  strength |-> Min(bearish_score * 25, 100)]
            ELSE [structure |-> "RANGING", strength |-> 40]

\* lines 149-157: the High of the swing-high rows, oldest first
StructureSwingHighs(bars) ==
    LET swing_period == Min(10, Len(bars) \div 4)
        rows         == SeqOfSet(SwingHighRows(bars, swing_period))
    IN  [i \in 1..Len(rows) |-> bars[rows[i]].High]

\* lines 149-157: the Low of the swing-low rows, oldest first
StructureSwingLows(bars) ==
    LET swing_period == Min(10, Len(bars) \div 4)
        rows         == SeqOfSet(SwingLowRows(bars, swing_period))
    IN  [i \in 1..Len(rows) |-> bars[rows[i]].Low]

\* identify_market_structure, lines 142-221
IdentifyMarketStructure(data) ==
    IF Len(data.bars) < 20
    THEN [structure |-> "UNKNOWN", strength |-> 0]
    ELSE StructureFromSwings(StructureSwingHighs(data.bars),
                             StructureSwingLows(data.bars))

---------------------------------------------------------------------------
(* find_fair_value_gaps, lines 357-486.  Momentum strengths and fill       *)
(* percentages are in thousandths of a point (100000 is 100), computed     *)
(* with integer division.                                                  *)

\* list.sort(key = ..., reverse = True), key[i] being the key of seq[i]:
\* descending by key, elements of equal key in their original order.
StableSortDesc(seq, key) ==
    LET n    == Len(seq)
        rank == [i \in 1..n |->
                    Cardinality({ j \in 1..n :
                        \/ key[j] > key[i]
                        \/ (key[j] = key[i] /\ j < i) }) + 1]
    IN  [r \in 1..n |-> seq[CHOOSE i \in 1..n : rank[i] = r]]

\* The true range of row k as the ta library computes it: the largest of
\* High - Low, |High - previous Close| and |Low - previous Close|, the
\* last two missing on the first row.
TrueRange(bars, k) ==
    IF k = 1 THEN bars[1].High - bars[1].Low
    ELSE Max(bars[k].High - bars[k].Low,
             Max(Abs(bars[k].High - bars[k - 1].Close),
                 Abs(bars[k].Low - bars[k - 1].Close)))

\* line 366: AverageTrueRange(window = 14).average_true_range().iloc[-1],
\* in thousandths, for a frame of at least 14 rows: the mean of the first
\* 14 true ranges, then (previous * 13 + true range) / 14 per row.
LastATR(bars) ==
    LET RECURSIVE Smooth(_)
        Smooth(k) ==
            IF k = 14
            THEN LET RECURSIVE Sum(_)
                     Sum(j) == IF j = 0 THEN 0
                               ELSE TrueRange(bars, j) + Sum(j - 1)
                 IN  (1000 * Sum(14)) \div 14
            ELSE (Smooth(k - 1) * 13 + 1000 * TrueRange(bars, k)) \div 14
    IN  Smooth(Len(bars))

\* _calculate_fvg_momentum, lines 442-464; gap_index is the model's row k
\* of the middle candle.  The rows are k - 3 .. k + 3, cut to the frame.
FvgMomentum(bars, k, gap_type) ==
    LET first      == Max(1, k - 3)
        last       == Min(Len(bars), k + 3)
        count      == last - first + 1
        open0      == bars[first].Open
        bullish    == Cardinality({ j \in first..last : bars[j].Close > bars[j].Open })
        bearish    == Cardinality({ j \in first..last : bars[j].Close < bars[j].Open })
        change     == IF gap_type = "BULLISH"
                      THEN bars[last].Close - bars[first].Open
                      ELSE bars[first].Open - bars[last].Close
        same       == IF gap_type = "BULLISH" THEN bullish ELSE bearish
        \* momentum * 10, in thousandths: change / open0 * 100 * same / count * 10
        scaled     == (change * same * 1000000) \div (open0 * count)
    IN  Max(0, Min(100000, scaled))

\* FvgFillPercentage measuring a bearish gap from its low, as a bullish one
FvgFillPercentage_BearishFromLow(fvg, current_price) ==
    LET gap_range == fvg.high - fvg.low
    IN  IF fvg.type = "BULLISH_FVG"
        THEN IF current_price <= fvg.low THEN 0
             ELSE IF current_price >= fvg.high THEN 100000
             ELSE ((current_price - fvg.low) * 100000) \div gap_range
        ELSE IF current_price >= fvg.high THEN 0
             ELSE IF current_price <= fvg.low THEN 100000
             ELSE ((current_price - fvg.low) * 100000) \div gap_range

\* _calculate_fvg_fill_percentage, lines 466-486
FvgFillPercentage(fvg, current_price) ==
    LET gap_range == fvg.high - fvg.low
    IN  IF fvg.type = "BULLISH_FVG"
        THEN IF current_price <= fvg.low THEN 0
             ELSE IF current_price >= fvg.high THEN 100000
             ELSE ((current_price - fvg.low) * 100000) \div gap_range
        ELSE IF current_price >= fvg.high THEN 0
             ELSE IF current_price <= fvg.low THEN 100000
             ELSE ((fvg.high - current_price) * 100000) \div gap_range

NoGap == [type |-> "NONE"]

\* Mutant: the gap is recorded with its two bounds exchanged.
FvgAt_SwappedBounds(bars, k, atr) ==
    LET prev_candle == bars[k - 1]
        next_candle == bars[k + 1]
    IN  IF prev_candle.Low > next_candle.High
        THEN IF 10000 * (prev_candle.Low - next_candle.High) >= atr
             THEN [type |-> "BULLISH_FVG",
                   high |-> next_candle.High,
                   low |-> prev_candle.Low,
                   gap_size |-> prev_candle.Low - next_candle.High,
                   timestamp |-> k,
                   momentum_strength |-> FvgMomentum(bars, k, "BULLISH"),
                   filled |-> FALSE,
                   fill_percentage |-> 0]
             ELSE NoGap
        ELSE IF prev_candle.High < next_candle.Low
        THEN IF 10000 * (next_candle.Low - prev_candle.High) >= atr
             THEN [type |-> "BEARISH_FVG",
                   high |-> prev_candle.High,
                   low |-> next_candle.Low,
                   gap_size |-> next_candle.Low - prev_candle.High,
                   timestamp |-> k,
                   momentum_strength |-> FvgMomentum(bars, k, "BEARISH"),
                   filled |-> FALSE,
                   fill_percentage |-> 0]
             ELSE NoGap
        ELSE NoGap

\* lines 371-420: the gap of the candles k - 1, k, k + 1, if there is one
\* of at least the threshold (atr, in thousandths, times min_gap_size 0.1)
FvgAt(bars, k, atr) ==
    LET prev_candle == bars[k - 1]
        next_candle == bars[k + 1]
    IN  IF prev_candle.Low > next_candle.High
        THEN IF 10000 * (prev_candle.Low - next_candle.High) >= atr
             THEN [type |-> "BULLISH_FVG",
                   high |-> prev_candle.Low,
                   low |-> next_candle.High,
                   gap_size |-> prev_candle.Low - next_candle.High,
                   timestamp |-> k,
                   momentum_strength |-> FvgMomentum(bars, k, "BULLISH"),
                   filled |-> FALSE,
                   fill_percentage |-> 0]
             ELSE NoGap
        ELSE IF prev_candle.High < next_candle.Low
        THEN IF 10000 * (next_candle.Low - prev_candle.High) >= atr
             THEN [type |-> "BEARISH_FVG",
                   high |-> next_candle.Low,
                   low |-> prev_candle.High,
                   gap_size |-> next_candle.Low - prev_candle.High,
                   timestamp |-> k,
                   momentum_strength |-> FvgMomentum(bars, k, "BEARISH"),
                   filled |-> FALSE,
                   fill_percentage |-> 0]
             ELSE NoGap
        ELSE NoGap

IsGap(g) == g.type # "NONE"

NotFilled(fvg) == ~fvg.filled

\* line 433: the sort keys of the gaps
MomentumStrengths(fvgs) == [i \in 1..Len(fvgs) |-> fvgs[i].momentum_strength]

\* FvgWithFill marking a gap filled only above 100
FvgWithFill_StrictFilled(fvg, current_price) ==
    [fvg EXCEPT !.fill_percentage = FvgFillPercentage(fvg, current_price),
                !.filled = FvgFillPercentage(fvg, current_price) > 100000]

\* lines 426-430: fill_percentage and filled against the last close
FvgWithFill(fvg, current_price) ==
    [fvg EXCEPT !.fill_percentage = FvgFillPercentage(fvg, current_price),
                !.filled = FvgFillPercentage(fvg, current_price) >= 100000]

\* lines 359-430: the list fvgs once every gap has its fill_percentage and
\* filled.  A frame of 3 to 13 rows makes AverageTrueRange raise
\* IndexError (its window of 14 does not fit) before any gap is built.
BuiltFairValueGaps(data) ==
    LET bars == data.bars
        n    == Len(bars)
    IN  IF n < 14 THEN << >>
        ELSE
            LET atr           == LastATR(bars)
                found         == SelectSeq([i \in 1..(n - 2) |-> FvgAt(bars, i + 1, atr)],
                                           IsGap)
                current_price == bars[n].Close
            IN  [i \in 1..Len(found) |-> FvgWithFill(found[i], current_price)]

\* find_fair_value_gaps.  The IndexError of a frame of 3 to 13 rows is
\* caught at line 438 and answered with [].
FindFairValueGaps(data) ==
    LET n == Len(data.bars)
    IN  IF n < 3 THEN << >>
        ELSE IF n < 14 THEN << >>
        ELSE
            LET fvgs          == BuiltFairValueGaps(data)
                unfilled_fvgs == StableSortDesc(SelectSeq(fvgs, NotFilled),
                                    MomentumStrengths(SelectSeq(fvgs, NotFilled)))
            IN  TailRows(unfilled_fvgs, 5)

---------------------------------------------------------------------------
(* find_order_blocks, lines 223-356                                        *)

\* lines 232-236: the candle properties
BodySize(bar) == Abs(bar.Close - bar.Open)

TotalRange(bar) == bar.High - bar.Low

\* body_ratio > num / den (a zero range gives NaN or inf only with a zero
\* body in this model's bars, and NaN compares False)
BodyRatioAbove(bar, num, den) == den * BodySize(bar) > num * TotalRange(bar)

\* line 240: data['body_size'].quantile(0.7), times 10: the quantile is
\* interpolated linearly between the order statistics around 0.7 * (n - 1)
BodySizeQuantile(bars) ==
    LET n      == Len(bars)
        sizes  == { BodySize(bars[j]) : j \in 1..n }
        below  == [v \in sizes |-> Cardinality({ j \in 1..n : BodySize(bars[j]) < v })]
        upto   == [v \in sizes |-> Cardinality({ j \in 1..n : BodySize(bars[j]) <= v })]
        \* the order statistic of 0-based rank r
        Stat(r) == CHOOSE v \in sizes : below[v] <= r /\ upto[v] > r
        lo     == (7 * (n - 1)) \div 10
        frac   == (7 * (n - 1)) % 10
        hi     == Min(lo + 1, n - 1)
    IN  10 * Stat(lo) + frac * (Stat(hi) - Stat(lo))

\* lines 242-245; min_body_size times 10
IsDisplacement(bar, min_body_size) ==
    BodyRatioAbove(bar, 6, 10) /\ 10 * BodySize(bar) > min_body_size

\* _validate_order_block, lines 307-329.  On a DatetimeIndex the difference
\* of the two labels is a Timedelta, its comparison with 1 raises
\* TypeError, and line 328 answers False.
ValidateOrderBlock(data, displacement_idx, ob_idx, ob_type) ==
    IF data.index = "datetime" THEN FALSE
    ELSE
        LET time_diff           == displacement_idx - ob_idx
            displacement_candle == data.bars[displacement_idx]
            ob_candle           == data.bars[ob_idx]
            price_move == IF ob_type = "BULLISH"
                          THEN displacement_candle.Close - ob_candle.High
                          ELSE ob_candle.Low - displacement_candle.Close
            min_move   == TotalRange(ob_candle) * 2
        IN  IF time_diff < 1 \/ time_diff > 20 THEN FALSE
            ELSE price_move > min_move

\* _calculate_ob_strength, lines 331-356.  The rolling(20) mean of the
\* volume is NaN on the first 19 rows, and a comparison with NaN is False.
CalculateObStrength(data, ob_idx, displacement_idx) ==
    LET bars == data.bars
        RECURSIVE VolumeSum(_, _)
        VolumeSum(from, to) == IF from > to THEN 0
                               ELSE bars[from].Volume + VolumeSum(from + 1, to)
        volume_factor ==
            IF ob_idx >= 20
               /\ 40 * bars[ob_idx].Volume > 3 * VolumeSum(ob_idx - 19, ob_idx)
            THEN 20 ELSE 0
        body_factor == IF BodyRatioAbove(bars[ob_idx], 7, 10) THEN 15 ELSE 0
        displacement_factor ==
            IF BodyRatioAbove(bars[displacement_idx], 8, 10) THEN 15 ELSE 0
    IN  Min(50 + volume_factor + body_factor + displacement_factor, 100)

NoBlock == [type |-> "NONE"]

\* lines 249-293: the order block of the displacement candle idx, if any
OrderBlockAt(data, idx) ==
    LET bars    == data.bars
        candle  == bars[idx]
        bullish == candle.Close > candle.Open
        \* data.loc[:idx].tail(15): the rows idx - 14 .. idx
        prev    == Max(1, idx - 14)..idx
        opposite == IF bullish
                    THEN { j \in prev : bars[j].Close < bars[j].Open }
                    ELSE { j \in prev : bars[j].Close > bars[j].Open }
    IN  IF opposite = {} THEN NoBlock
        ELSE
            LET ob_idx == CHOOSE j \in opposite : \A i \in opposite : i <= j
                last   == bars[ob_idx]
            IN  IF ValidateOrderBlock(data, idx, ob_idx,
                                      IF bullish THEN "BULLISH" ELSE "BEARISH")
                THEN [type |-> IF bullish THEN "BULLISH_OB" ELSE "BEARISH_OB",
                      high |-> last.High,
                      low |-> last.Low,
                      open |-> last.Open,
                      close |-> last.Close,
                      timestamp |-> ob_idx,
                      displacement_candle |-> idx,
                      strength |-> CalculateObStrength(data, ob_idx, idx),
                      tested |-> FALSE]
                ELSE NoBlock

IsBlock(b) == b.type # "NONE"

\* lines 300 and 547: the sort keys of order blocks and of pools
Strengths(items) == [i \in 1..Len(items) |-> items[i].strength]

\* lines 238-297: the list order_blocks before it is sorted, built from the
\* last ten displacement candles
BuiltOrderBlocks(data) ==
    LET bars == data.bars
        n    == Len(bars)
    IN  IF n < 20 THEN << >>
        ELSE
            LET min_body_size == BodySizeQuantile(bars)
                displacement_candles ==
                    SelectSeq([k \in 1..n |->
                                  IF IsDisplacement(bars[k], min_body_size) THEN k ELSE 0],
                              LAMBDA k : k # 0)
                last_ten     == TailRows(displacement_candles, 10)
            IN  SelectSeq([i \in 1..Len(last_ten) |-> OrderBlockAt(data, last_ten[i])],
                          IsBlock)

\* Mutant: the first five blocks are returned without the sort.
FindOrderBlocks_Unsorted(data) == HeadRows(BuiltOrderBlocks(data), 5)

\* find_order_blocks, lines 223-305
FindOrderBlocks(data) ==
    LET order_blocks == BuiltOrderBlocks(data)
    IN  HeadRows(StableSortDesc(order_blocks, Strengths(order_blocks)), 5)

---------------------------------------------------------------------------
(* find_liquidity_pools, lines 488-678.  Levels are in hundredths and      *)
(* strengths in tenths; the products of a level with 1.001, 0.999 and      *)
(* 0.001 are exact here.                                                   *)

\* _calculate_volume_at_level, lines 612-654; level in hundredths
CalculateVolumeAtLevel(data, level, level_type) ==
    LET bars == data.bars
        n    == Len(bars)
        Touches(price) == /\ 100000 * price >= 999 * level
                          /\ 100000 * price <= 1001 * level
        touching == { k \in 1..n :
                        IF level_type = "HIGH" THEN Touches(bars[k].High)
                        ELSE Touches(bars[k].Low) }
        RECURSIVE VolumeOf(_)
        VolumeOf(S) == IF S = {} THEN 0
                       ELSE LET k == CHOOSE j \in S : TRUE
                            IN  bars[k].Volume + VolumeOf(S \ { k })
        total_volume == VolumeOf(touching)
        overall      == VolumeOf(1..n)
        count        == Cardinality(touching)
    IN  IF touching = {}
        THEN [total_volume |-> 0, avg_volume |-> 0, volume_strength |-> "LOW"]
        ELSE [total_volume |-> total_volume,
              avg_volume |-> total_volume \div count,
              volume_strength |->
                  IF 2 * total_volume * n > 3 * overall * count THEN "HIGH"
                  ELSE IF 5 * total_volume * n > 6 * overall * count THEN "MEDIUM"
                  ELSE "LOW"]

\* _find_equal_levels, lines 555-610.  rows are the labels of the swing
\* rows, oldest first, and prices their values.  On an integer index the
\* span of a level has no total_seconds(): the AttributeError is caught at
\* line 608 and the answer is [].
FindEqualLevels(data, rows, prices) ==
    LET n == Len(prices)
        RECURSIVE PriceSum(_)
        PriceSum(S) == IF S = {} THEN 0
                       ELSE LET j == CHOOSE i \in S : TRUE
                            IN  prices[j] + PriceSum(S \ { j })
        Level(similar_indices) ==
            LET touches    == Cardinality(similar_indices)
                timestamps == SeqOfSet({ rows[j] : j \in similar_indices })
                time_span  == timestamps[Len(timestamps)] - timestamps[1]
            IN  [level |-> RoundHalfEven(100 * PriceSum(similar_indices), touches),
                 touches |-> touches,
                 timestamps |-> timestamps,
                 \* min(100, touches * 20 + min(time_span / 24, 10)), rounded
                 \* to one decimal
                 strength |-> RoundHalfEven(
                     Min(24000, touches * 4800 + Min(10 * time_span, 2400)), 24)]
        RECURSIVE Scan(_, _)
        Scan(i, processed_indices) ==
            IF i > n THEN << >>
            ELSE IF i \in processed_indices THEN Scan(i + 1, processed_indices)
            ELSE
                LET similar_indices ==
                        { j \in (1..n) \ processed_indices :
                            1000 * Abs(prices[i] - prices[j]) <= prices[i] }
                IN  IF Cardinality(similar_indices) >= 2
                    THEN << Level(similar_indices) >>
                         \o Scan(i + 1, processed_indices \cup similar_indices)
                    ELSE Scan(i + 1, processed_indices)
    IN  IF n < 2 THEN << >>
        ELSE IF data.index # "datetime" THEN << >>
        ELSE Scan(1, {})

\* _check_liquidity_swept reading the closes where the code reads the
\* extremes of the bars
CheckLiquiditySwept_Closes(pool, data) ==
    LET bars        == data.bars
        recent_data == { k \in 1..Len(bars) : k > pool.last_touch }
    IN  IF recent_data = {} THEN FALSE
        ELSE IF pool.type = "SELL_SIDE_LIQUIDITY"
        THEN \E k \in recent_data : 100000 * bars[k].Close > 1001 * pool.level
        ELSE \E k \in recent_data : 100000 * bars[k].Close < 999 * pool.level

\* _check_liquidity_swept, lines 656-678
CheckLiquiditySwept(pool, data) ==
    LET bars        == data.bars
        recent_data == { k \in 1..Len(bars) : k > pool.last_touch }
    IN  IF recent_data = {} THEN FALSE
        ELSE IF pool.type = "SELL_SIDE_LIQUIDITY"
        THEN \E k \in recent_data : 100000 * bars[k].High > 1001 * pool.level
        ELSE \E k \in recent_data : 100000 * bars[k].Low < 999 * pool.level

\* lines 514-538: the pool of an equal level
PoolOf(data, level_info, pool_type, level_type) ==
    [type |-> pool_type,
     level |-> level_info.level,
     touches |-> level_info.touches,
     timestamps |-> level_info.timestamps,
     strength |-> level_info.strength,
     volume_profile |-> CalculateVolumeAtLevel(data, level_info.level, level_type),
     last_touch |-> level_info.timestamps[Len(level_info.timestamps)],
     swept |-> FALSE]

NotSwept(pool) == ~pool.swept

\* lines 503-543: the pools of the equal highs and equal lows, each marked
\* swept or not
CheckedLiquidityPools(data) ==
    LET bars == data.bars
        n    == Len(bars)
    IN  IF n < 30 THEN << >>
        ELSE
            LET swing_window == Min(5, n \div 10)
                high_rows    == SeqOfSet(SwingHighRows(bars, swing_window))
                low_rows     == SeqOfSet(SwingLowRows(bars, swing_window))
                equal_highs  == FindEqualLevels(data, high_rows,
                                    [i \in 1..Len(high_rows) |-> bars[high_rows[i]].High])
                equal_lows   == FindEqualLevels(data, low_rows,
                                    [i \in 1..Len(low_rows) |-> bars[low_rows[i]].Low])
                liquidity_pools ==
                    [i \in 1..Len(equal_highs) |->
                        PoolOf(data, equal_highs[i], "SELL_SIDE_LIQUIDITY", "HIGH")]
                    \o [i \in 1..Len(equal_lows) |->
                        PoolOf(data, equal_lows[i], "BUY_SIDE_LIQUIDITY", "LOW")]
            IN  [i \in 1..Len(liquidity_pools) |->
                    [liquidity_pools[i] EXCEPT
                        !.swept = CheckLiquiditySwept(liquidity_pools[i], data)]]

\* find_liquidity_pools
FindLiquidityPools(data) ==
    LET checked      == CheckedLiquidityPools(data)
        active_pools == StableSortDesc(SelectSeq(checked, NotSwept),
                                       Strengths(SelectSeq(checked, NotSwept)))
    IN  HeadRows(active_pools, 6)

---------------------------------------------------------------------------
(* The bar series the detectors are checked on: zigzags of alternating up  *)
(* and down legs.  A shape gives the lengths of the up and down legs, the  *)
(* close-to-close step of each, the wicks, the number of bars and the      *)
(* index kind.  Every bar opens at the previous close.                     *)

\* Close before the first bar.
BasePrice == 2000

\* Longest leg and longest series drawn.
MaxLeg == 11

MaxBars == 75

LegLengths == { 3, 5, 8, MaxLeg }

SeriesLengths == { 12, 16, 19, 20, 31, 45, 60, MaxBars }

\* <<up step, down step>> of the closes
StepPairs == { <<1, 1>>, <<2, 1>>, <<1, 2>>, <<3, 1>>, <<1, 3>>, <<4, 5>> }

Shapes ==
    [up_len : LegLengths, down_len : LegLengths, steps : StepPairs,
     wick : { "pointed", "flat" }, len : SeriesLengths,
     index : { "datetime", "range" }]

\* Close of bar k of the zigzag (k = 0: the close before the first bar).
ZigzagClose(k, shape) ==
    IF k = 0 THEN BasePrice
    ELSE
        LET period == shape.up_len + shape.down_len
            cycles == (k - 1) \div period
            j      == ((k - 1) % period) + 1
            rise   == shape.up_len * shape.steps[1]
            fall   == shape.down_len * shape.steps[2]
        IN  BasePrice + cycles * (rise - fall)
            + (IF j <= shape.up_len
               THEN j * shape.steps[1]
               ELSE rise - (j - shape.up_len) * shape.steps[2])

\* Whether bar k is the last bar of a leg.
ZigzagTurn(k, shape) ==
    LET j == ((k - 1) % (shape.up_len + shape.down_len)) + 1
    IN  j = shape.up_len \/ j = shape.up_len + shape.down_len

\* Bar k.  A pointed bar has its wick on the side it moves to (one unit);
\* a flat bar has a wick of one unit on both sides.  The last bar of a leg
\* trades four times the volume of the others.
ZigzagBar(k, shape) ==
    LET o  == ZigzagClose(k - 1, shape)
        c  == ZigzagClose(k, shape)
        up == c > o
    IN  [Open   |-> o,
         Close  |-> c,
         High   |-> IF shape.wick = "flat" THEN Max(o, c) + 1
                    ELSE IF up THEN c + 1 ELSE o,
         Low    |-> IF shape.wick = "flat" THEN Min(o, c) - 1
                    ELSE IF up THEN o ELSE c - 1,
         Volume |-> IF ZigzagTurn(k, shape) THEN 400 ELSE 100]

ZigzagSeries(shape) ==
    [index |-> shape.index,
     bars  |-> [k \in 1..shape.len |-> ZigzagBar(k, shape)]]

SeriesFamily == { ZigzagSeries(shape) : shape \in Shapes }

---------------------------------------------------------------------------
(* Specification SpecDetect: one call of a detector on a frame of the      *)
(* family.  The frame starts with the five columns of a price history and  *)
(* keeps the columns the detector assigns.                                 *)

PriceColumns == { "Open", "High", "Low", "Close", "Volume" }

Frames ==
    { [index |-> d.index, bars |-> d.bars, columns |-> PriceColumns] :
        d \in SeriesFamily }

InitDetect ==
    /\ pc = "ready"
    /\ call = [op |-> "none"]
    /\ clock = 0
    /\ locals = NoLocals
    /\ response = NoResponse
    /\ frame \in Frames
    /\ log = << >>

\* identify_market_structure(frame); lines 152-153 assign two columns
CallIdentifyMarketStructure ==
    /\ pc = "ready"
    /\ call' = [op |-> "identify_market_structure"]
    /\ response' = IdentifyMarketStructure(frame)
    /\ frame' = IF Len(frame.bars) < 20 THEN frame
                 ELSE [frame EXCEPT !.columns = @ \cup { "swing_high", "swing_low" }]
    /\ pc' = "returned"
    /\ UNCHANGED <<clock, locals, log>>

\* find_order_blocks(frame); lines 232-236 assign five columns
CallFindOrderBlocks ==
    /\ pc = "ready"
    /\ call' = [op |-> "find_order_blocks"]
    /\ response' = FindOrderBlocks(frame)
    /\ frame' = IF Len(frame.bars) < 20 THEN frame
                 ELSE [frame EXCEPT !.columns = @ \cup
                          { "body_size", "upper_wick", "lower_wick",
                            "total_range", "body_ratio" }]
    /\ pc' = "returned"
    /\ UNCHANGED <<clock, locals, log>>

\* find_fair_value_gaps(frame); it assigns no column.  locals keeps the
\* list fvgs, the filled gaps included.
CallFindFairValueGaps ==
    /\ pc = "ready"
    /\ call' = [op |-> "find_fair_value_gaps"]
    /\ response' = FindFairValueGaps(frame)
    /\ locals' = [fvgs |-> BuiltFairValueGaps(frame)]
    /\ pc' = "returned"
    /\ UNCHANGED <<clock, frame, log>>

\* find_liquidity_pools(frame); lines 500-507 assign two columns
CallFindLiquidityPools ==
    /\ pc = "ready"
    /\ call' = [op |-> "find_liquidity_pools"]
    /\ response' = FindLiquidityPools(frame)
    /\ frame' = IF Len(frame.bars) < 30 THEN frame
                 ELSE [frame EXCEPT !.columns = @ \cup
                          { "is_swing_high", "is_swing_low" }]
    /\ pc' = "returned"
    /\ UNCHANGED <<clock, locals, log>>

NextDetect ==
    \/ CallIdentifyMarketStructure
    \/ CallFindOrderBlocks
    \/ CallFindFairValueGaps
    \/ CallFindLiquidityPools

SpecDetect == InitDetect /\ [][NextDetect]_vars

---------------------------------------------------------------------------
(* get_multi_timeframe_data and _get_multi_timeframe_bias.  The upstream   *)
(* (yfinance) answers each interval with a frame; mtf_data is a function   *)
(* from the timeframes kept to their frames, its key order that of         *)
(* KeyOrder.  Bias scores are in hundredths, rounded away from the 60/40   *)
(* step, and bias strengths in tenths.                                     *)

\* lines 63-69: the intervals fetched, in the order of timeframe_config
FetchedTimeframes == << "1m", "5m", "15m", "1h", "1d" >>

\* insertion order of the keys of mtf_data: the fetched ones, then '4h'
KeyOrder == << "1m", "5m", "15m", "1h", "1d", "4h" >>

\* lines 46-53: data_limits
DataLimits ==
    [tf \in { "1m", "5m", "15m", "1h", "4h", "1d" } |->
        IF tf = "1m" THEN 200
        ELSE IF tf \in { "5m", "15m" } THEN 500
        ELSE IF tf = "1d" THEN 365
        ELSE 720]

\* lines 108-114: data['1h'].resample('4H').agg(...).dropna(); the bar of
\* hour k falls in the bin k \div 4
Resample4H(data) ==
    LET bars == data.bars
        n    == Len(bars)
        Bin(b) == { k \in 1..n : k \div 4 = b }
        First(b) == CHOOSE k \in Bin(b) : \A j \in Bin(b) : k <= j
        Last(b)  == CHOOSE k \in Bin(b) : \A j \in Bin(b) : k >= j
        RECURSIVE VolumeOf(_)
        VolumeOf(S) == IF S = {} THEN 0
                       ELSE LET k == CHOOSE j \in S : TRUE
                            IN  bars[k].Volume + VolumeOf(S \ { k })
    IN  [index |-> data.index,
         bars  |-> [i \in 1..((n \div 4) + 1) |->
                      [Open   |-> bars[First(i - 1)].Open,
                       High   |-> bars[CHOOSE k \in Bin(i - 1) :
                                     \A j \in Bin(i - 1) : bars[k].High >= bars[j].High].High,
                       Low    |-> bars[CHOOSE k \in Bin(i - 1) :
                                     \A j \in Bin(i - 1) : bars[k].Low <= bars[j].Low].Low,
                       Close  |-> bars[Last(i - 1)].Close,
                       Volume |-> VolumeOf(Bin(i - 1))]]]

\* one attempt, lines 71-119: the fetched frames of at least 10 rows, cut
\* to their limit, and the 4h frame resampled from the 1h one
CollectTimeframes(upstream) ==
    LET kept == { tf \in DOMAIN upstream : Len(upstream[tf].bars) >= 10 }
        Cut(tf, data) == [data EXCEPT !.bars = TailRows(@, DataLimits[tf])]
    IN  [tf \in kept \cup (IF "1h" \in kept THEN { "4h" } ELSE {}) |->
            IF tf = "4h" THEN Cut("4h", Resample4H(Cut("1h", upstream["1h"])))
            ELSE Cut(tf, upstream[tf])]

\* get_multi_timeframe_data, lines 56-140: an attempt that collects nothing
\* raises and is retried, and after the third the answer is {}; the
\* upstream answers the three attempts alike
GetMultiTimeframeData(upstream) == CollectTimeframes(upstream)

\* list(mtf_data.keys())
Keys(mtf_data) == SelectSeq(KeyOrder, LAMBDA tf : tf \in DOMAIN mtf_data)

\* line 1052
PrimaryTimeframe(mtf_data) ==
    IF "1h" \in DOMAIN mtf_data THEN "1h"
    ELSE IF "15m" \in DOMAIN mtf_data THEN "15m"
    ELSE Keys(mtf_data)[1]

\* lines 1194-1204: the score of one timeframe, in hundredths
TimeframeScore(data) ==
    LET bars   == data.bars
        n      == Len(bars)
        window == Min(20, n)
        RECURSIVE CloseSum(_)
        CloseSum(k) == IF k <= n - window THEN 0
                       ELSE bars[k].Close + CloseSum(k - 1)
        total         == CloseSum(n)
        current_price == bars[n].Close
        \* |current_price - sma_20| / sma_20 * 1000, in hundredths, rounded up
        distance == (100000 * Abs(current_price * window - total) + total - 1)
                        \div total
        score    == IF current_price * window > total
                    THEN 6000 + Min(distance, 3000)
                    ELSE 4000 - Min(distance, 3000)
    IN  Max(0, Min(10000, score))

\* lines 1209: weights, doubled
TimeframeWeights ==
    [tf \in { "1m", "5m", "15m", "1h", "4h", "1d" } |->
        IF tf = "1d" THEN 6
        ELSE IF tf = "4h" THEN 5
        ELSE IF tf = "1h" THEN 4
        ELSE IF tf = "15m" THEN 3
        ELSE IF tf = "5m" THEN 2
        ELSE 1]

\* _get_multi_timeframe_bias, lines 1184-1236
GetMultiTimeframeBias(mtf_data) ==
    LET scored == { tf \in DOMAIN mtf_data : Len(mtf_data[tf].bars) >= 10 }
        timeframe_scores == [tf \in scored |-> TimeframeScore(mtf_data[tf])]
        RECURSIVE Weighted(_)
        Weighted(S) == IF S = {} THEN 0
                       ELSE LET tf == CHOOSE t \in S : TRUE
                            IN  timeframe_scores[tf] * TimeframeWeights[tf]
                                + Weighted(S \ { tf })
        RECURSIVE Weight(_)
        Weight(S) == IF S = {} THEN 0
                     ELSE LET tf == CHOOSE t \in S : TRUE
                          IN  TimeframeWeights[tf] + Weight(S \ { tf })
        weighted_score == Weighted(scored)
        total_weight   == Weight(scored)
    IN  IF scored = {}
        THEN [overall_bias |-> "NEUTRAL", strength |-> 500,
              details |-> timeframe_scores]
        ELSE [overall_bias |->
                  IF weighted_score > 6000 * total_weight THEN "BULLISH"
                  ELSE IF weighted_score < 4000 * total_weight THEN "BEARISH"
                  ELSE "NEUTRAL",
              \* round(abs(overall_score - 50) * 2, 1)
              strength |-> RoundHalfEven(Abs(weighted_score - 5000 * total_weight),
                                         5 * total_weight),
              details |-> timeframe_scores]

---------------------------------------------------------------------------
(* Specification SpecEngine: calls of generate_real_ict_signal, one after  *)
(* the other at any times of the day, against an upstream that answers     *)
(* every call with the same frames.  The outputs of the analysis stages    *)
(* (_calculate_signal_components and the indicator bank) are drawn from    *)
(* bounded sets, as in Spec, and are the same for every call.              *)

\* calls per behaviour
MaxCalls == 2

\* rows of the longest upstream frame
MaxFeedBars == 40

\* lines 1047-1057: no timeframe at all, or a primary frame of fewer than
\* 20 rows
UsesFallback(mtf_data) ==
    \/ DOMAIN mtf_data = {}
    \/ Len(mtf_data[PrimaryTimeframe(mtf_data)].bars) < 20

\* line 1059: the last close of the primary frame (dollars), in cents
CurrentPrice(mtf_data) ==
    LET main_data == mtf_data[PrimaryTimeframe(mtf_data)]
    IN  100 * main_data.bars[Len(main_data.bars)].Close

\* generate_real_ict_signal, lines 1039-1182, from the upstream frames and
\* the outputs of the analysis stages
GenerateRealIctSignal(upstream, signal_data, indicators, now) ==
    LET mtf_data == GetMultiTimeframeData(upstream)
    IN  IF UsesFallback(mtf_data) THEN EnhancedFallbackSignal(now)
        ELSE
            LET current_price == CurrentPrice(mtf_data)
                mtf_bias      == GetMultiTimeframeBias(mtf_data)
            IN  BuildResponse(
                    MakeFinalSignalDecision(signal_data, current_price,
                                            indicators, mtf_bias),
                    signal_data, current_price, mtf_bias,
                    Keys(mtf_data), PrimaryTimeframe(mtf_data), now)

\* the locals of the decision of that call, or `before` when the call
\* does not reach the decision
GenerateLocals(upstream, signal_data, indicators, before) ==
    LET mtf_data == GetMultiTimeframeData(upstream)
    IN  IF UsesFallback(mtf_data) THEN before
        ELSE IF DecisionRaises(signal_data)
        THEN [raised |-> TRUE, class_direction |-> "NONE"]
        ELSE DecisionLocals(signal_data, CurrentPrice(mtf_data), indicators,
                            GetMultiTimeframeBias(mtf_data))

\* the frame of `len` hourly-stamped bars that rise by one, fall by one
\* (after a first rising bar) or stay flat
FeedFrame(len, trend) ==
    [index |-> "datetime",
     bars  |-> ZigzagSeries(
                   [up_len   |-> IF trend = "falling" THEN 1 ELSE MaxFeedBars + 1,
                    down_len |-> IF trend = "falling" THEN MaxFeedBars + 1 ELSE 1,
                    steps    |-> IF trend = "flat" THEN << 0, 0 >> ELSE << 1, 1 >>,
                    wick     |-> "pointed",
                    len      |-> len,
                    index    |-> "datetime"]).bars]

EmptyFrame == FeedFrame(0, "flat")

\* what the upstream may answer for each interval
FeedOptions ==
    [tf \in { "1m", "5m", "15m", "1h", "1d" } |->
        IF tf = "1h"
        THEN { EmptyFrame, FeedFrame(12, "rising"), FeedFrame(24, "rising"),
               FeedFrame(24, "flat"), FeedFrame(MaxFeedBars, "falling") }
        ELSE IF tf = "15m"
        THEN { EmptyFrame, FeedFrame(5, "rising"), FeedFrame(24, "rising") }
        ELSE IF tf = "1d"
        THEN { EmptyFrame, FeedFrame(24, "falling") }
        ELSE IF tf = "5m"
        THEN { EmptyFrame, FeedFrame(24, "flat") }
        ELSE { EmptyFrame, FeedFrame(12, "rising") }]

Upstreams ==
    { f \in [{ "1m", "5m", "15m", "1h", "1d" } ->
                UNION { FeedOptions[tf] : tf \in DOMAIN FeedOptions }] :
        \A tf \in DOMAIN f : f[tf] \in FeedOptions[tf] }

EngineSignalDatas ==
    [signal_score : { 2000, 8000 }, confluence_count : { 4 },
     reasons : { ComponentReasons }]

EngineCalls ==
    [upstream : Upstreams, signal_data : EngineSignalDatas,
     indicators : { [atr_14 |-> 1250] }]

InitEngine ==
    /\ pc = "ready"
    /\ call \in EngineCalls
    /\ clock \in Clocks
    /\ locals = NoLocals
    /\ response = NoResponse
    /\ frame = NoFrame
    /\ log = << >>

\* the wall clock moves to another minute of the day
Tick ==
    /\ \E now \in Clocks : now # clock /\ clock' = now
    /\ UNCHANGED <<pc, call, locals, response, frame, log>>

\* one call of generate_real_ict_signal
Generate ==
    /\ Len(log) < MaxCalls
    /\ response' = GenerateRealIctSignal(call.upstream, call.signal_data,
                                           call.indicators, clock)
    /\ locals' = GenerateLocals(call.upstream, call.signal_data,
                                 call.indicators, locals)
    /\ log' = Append(log, response')
    /\ pc' = "returned"
    /\ UNCHANGED <<call, clock, frame>>

NextEngine == Tick \/ Generate

SpecEngine == InitEngine /\ [][NextEngine]_vars

---------------------------------------------------------------------------
(* Specification SpecBias: _get_multi_timeframe_bias on the timeframes     *)
(* collected from one upstream answer (lines 1047 and 1091).               *)

InitBias ==
    /\ pc = "ready"
    /\ call \in [upstream : Upstreams]
    /\ clock = 0
    /\ locals = NoLocals
    /\ response = NoResponse
    /\ frame = NoFrame
    /\ log = << >>

\* mtf_bias = self._get_multi_timeframe_bias(mtf_data)
CallGetMultiTimeframeBias ==
    /\ pc = "ready"
    /\ response' = GetMultiTimeframeBias(GetMultiTimeframeData(call.upstream))
    /\ pc' = "returned"
    /\ UNCHANGED <<call, clock, locals, frame, log>>

NextBias == CallGetMultiTimeframeBias

SpecBias == InitBias /\ [][NextBias]_vars

---------------------------------------------------------------------------
(* Specification SpecFill: _calculate_fvg_fill_percentage applied to one   *)
(* gap at two prices.                                                      *)

\* widest gap drawn
MaxGapWidth == 6

FillGaps ==
    [type : { "BULLISH_FVG", "BEARISH_FVG" }, low : { BasePrice },
     high : { BasePrice + w : w \in 1..MaxGapWidth }]

FillPrices == (BasePrice - 2)..(BasePrice + MaxGapWidth + 2)

InitFill ==
    /\ pc = "ready"
    /\ call \in [fvg : FillGaps, p1 : FillPrices, p2 : FillPrices]
    /\ clock = 0
    /\ locals = NoLocals
    /\ response = NoResponse
    /\ frame = NoFrame
    /\ log = << >>

CalculateFvgFillPercentage ==
    /\ pc = "ready"
    /\ response' = [fill1 |-> FvgFillPercentage(call.fvg, call.p1),
                     fill2 |-> FvgFillPercentage(call.fvg, call.p2)]
    /\ pc' = "returned"
    /\ UNCHANGED <<call, clock, locals, frame, log>>

NextFill == CalculateFvgFillPercentage

SpecFill == InitFill /\ [][NextFill]_vars

---------------------------------------------------------------------------
(* _calculate_signal_components, lines 1238-1371, with its helpers         *)
(* _get_active_order_blocks and _get_active_fvgs.  Scores are in           *)
(* ten-thousandths of a point (500000 is 50).  The current price and the   *)
(* bounds of zones are in whole dollars, order block and structure         *)
(* strengths in points, gap momentum and fill in thousandths, bias         *)
(* strength in tenths, rsi_14 in points, volume_ratio in hundredths, and   *)
(* ema and macd values in cents.  The arithmetic is exact.                 *)

Points(n) == 10000 * n

\* dict.get(key, default)
Get(d, key, default) == IF key \in DOMAIN d THEN d[key] ELSE default

\* the sum of a list of numbers
SumSeq(s) ==
    LET RECURSIVE Sum(_)
        Sum(i) == IF i = 0 THEN 0 ELSE s[i] + Sum(i - 1)
    IN  Sum(Len(s))

\* list.sort(key = lambda x: (major, minor), reverse = True): descending by
\* the pair, elements of equal pair in their original order
StableSortDescPair(seq, major, minor) ==
    LET n    == Len(seq)
        rank == [i \in 1..n |->
                    Cardinality({ j \in 1..n :
                        \/ major[j] > major[i]
                        \/ (major[j] = major[i] /\ minor[j] > minor[i])
                        \/ (major[j] = major[i] /\ minor[j] = minor[i] /\ j < i) }) + 1]
    IN  [r \in 1..n |-> seq[CHOOSE i \in 1..n : rank[i] = r]]

\* line 1491: (ob['low'] - tolerance) <= current_price <= (ob['high'] + tolerance)
\* with tolerance = current_price * 0.001
IsActiveOrderBlock(ob, current_price) ==
    /\ 1000 * ob.low - current_price <= 1000 * current_price
    /\ 1000 * current_price <= 1000 * ob.high + current_price

\* lines 1493-1498: proximity_score, times current_price
ProximityScore(ob, current_price) ==
    LET distance == Min(Abs(current_price - ob.low), Abs(current_price - ob.high))
    IN  Max(0, 100 * current_price - 10000 * distance)

\* _get_active_order_blocks, lines 1485-1503.  The distance and
\* proximity_score the helper stores in each dict are used for the sort
\* only.
GetActiveOrderBlocks(order_blocks, current_price) ==
    LET active_obs == SelectSeq(order_blocks,
                                LAMBDA ob : IsActiveOrderBlock(ob, current_price))
        proximity  == [i \in 1..Len(active_obs) |->
                          ProximityScore(active_obs[i], current_price)]
    IN  HeadRows(StableSortDescPair(active_obs, proximity, Strengths(active_obs)), 3)

\* lines 1511-1517: unfilled, within 0.05% of the gap, less than 80% filled
IsActiveFvg(fvg, current_price) ==
    /\ ~fvg.filled
    /\ 2000 * fvg.low - current_price <= 2000 * current_price
    /\ 2000 * current_price <= 2000 * fvg.high + current_price
    /\ FvgFillPercentage(fvg, current_price) < 80000

\* _get_active_fvgs, lines 1505-1523
GetActiveFvgs(fvgs, current_price) ==
    LET active_fvgs == SelectSeq(fvgs, LAMBDA fvg : IsActiveFvg(fvg, current_price))
        unfilled    == [i \in 1..Len(active_fvgs) |->
                           100000 - FvgFillPercentage(active_fvgs[i], current_price)]
    IN  HeadRows(StableSortDescPair(active_fvgs, MomentumStrengths(active_fvgs),
                                    unfilled), 2)

\* lines 1247-1257: the market structure
StructurePoints(market_structure) ==
    IF market_structure.structure = "BULLISH" THEN market_structure.strength * 2000
    ELSE IF market_structure.structure = "BEARISH" THEN - market_structure.strength * 2000
    ELSE 0

StructureFactors(market_structure) ==
    IF market_structure.structure = "BULLISH" THEN << "BULLISH_STRUCTURE" >>
    ELSE IF market_structure.structure = "BEARISH" THEN << "BEARISH_STRUCTURE" >>
    ELSE << >>

StructureReasons(market_structure) ==
    IF market_structure.structure = "BULLISH" THEN << "Bullish market structure" >>
    ELSE IF market_structure.structure = "BEARISH" THEN << "Bearish market structure" >>
    ELSE << >>

\* lines 1262-1269: one active order block
OrderBlockPoints(ob) ==
    IF ob.type = "BULLISH_OB" THEN Min(ob.strength * 1500, Points(15))
    ELSE IF ob.type = "BEARISH_OB" THEN - Min(ob.strength * 1500, Points(15))
    ELSE 0

OrderBlockFactor(ob) ==
    IF ob.type = "BULLISH_OB" THEN "BULLISH_ORDER_BLOCK" ELSE "BEARISH_ORDER_BLOCK"

OrderBlockReason(ob) ==
    IF ob.type = "BULLISH_OB" THEN "Price at bullish order block"
    ELSE "Price at bearish order block"

\* lines 1274-1281: one active gap
FvgPoints(fvg) ==
    IF fvg.type = "BULLISH_FVG" THEN Min(fvg.momentum_strength, Points(10))
    ELSE IF fvg.type = "BEARISH_FVG" THEN - Min(fvg.momentum_strength, Points(10))
    ELSE 0

FvgFactor(fvg) == fvg.type

FvgReason(fvg) ==
    IF fvg.type = "BULLISH_FVG" THEN "Price in bullish FVG" ELSE "Price in bearish FVG"

\* lines 1286-1293: EMA alignment
EmaBullish(indicators) == Get(indicators, "ema_12", 0) > Get(indicators, "ema_26", 0)

EmaPoints(indicators) == IF EmaBullish(indicators) THEN Points(8) ELSE - Points(8)

\* lines 1296-1301: MACD
MacdBullish(indicators) == Get(indicators, "macd", 0) > Get(indicators, "macd_signal", 0)

MacdPoints(indicators) == IF MacdBullish(indicators) THEN Points(5) ELSE - Points(5)

\* Mutant: the +2 of a neutral RSI includes 40 and 60.
RsiPoints_Inclusive(indicators) ==
    LET rsi == Get(indicators, "rsi_14", 50)
    IN  IF rsi < 30 THEN Points(10)
        ELSE IF rsi > 70 THEN - Points(10)
        ELSE IF 40 <= rsi /\ rsi <= 60 THEN Points(2)
        ELSE 0

\* lines 1304-1314: RSI
RsiPoints(indicators) ==
    LET rsi == Get(indicators, "rsi_14", 50)
    IN  IF rsi < 30 THEN Points(10)
        ELSE IF rsi > 70 THEN - Points(10)
        ELSE IF 40 < rsi /\ rsi < 60 THEN Points(2)
        ELSE 0

RsiFactors(indicators) ==
    LET rsi == Get(indicators, "rsi_14", 50)
    IN  IF rsi < 30 THEN << "RSI_OVERSOLD" >>
        ELSE IF rsi > 70 THEN << "RSI_OVERBOUGHT" >>
        ELSE << >>

RsiReasons(indicators) ==
    LET rsi == Get(indicators, "rsi_14", 50)
    IN  IF rsi < 30 THEN << "RSI oversold" >>
        ELSE IF rsi > 70 THEN << "RSI overbought" >>
        ELSE << >>

\* lines 1318-1332: the multi-timeframe bias, strength * 0.25
BiasPoints(mtf_bias) ==
    IF mtf_bias.overall_bias = "BULLISH" THEN mtf_bias.strength * 250
    ELSE IF mtf_bias.overall_bias = "BEARISH" THEN - mtf_bias.strength * 250
    ELSE 0

BiasFactors(mtf_bias) ==
    IF mtf_bias.overall_bias = "BULLISH" THEN << "MTF_BULLISH" >>
    ELSE IF mtf_bias.overall_bias = "BEARISH" THEN << "MTF_BEARISH" >>
    ELSE << >>

BiasReasons(mtf_bias) ==
    IF mtf_bias.overall_bias = "BULLISH" THEN << "Multi-timeframe bullish bias" >>
    ELSE IF mtf_bias.overall_bias = "BEARISH" THEN << "Multi-timeframe bearish bias" >>
    ELSE << "Multi-timeframe bias is neutral." >>

\* Mutant: a bias of strength exactly 60 counts as strong.
StrongOppositionPoints_FromSixty(signal_score, mtf_bias) ==
    IF signal_score > Points(55) /\ mtf_bias.overall_bias = "BEARISH"
       /\ mtf_bias.strength >= 600
    THEN - Points(20)
    ELSE IF signal_score < Points(45) /\ mtf_bias.overall_bias = "BULLISH"
            /\ mtf_bias.strength >= 600
    THEN Points(20)
    ELSE 0

\* lines 1337-1345: the strong opposition of the bias to the developing
\* signal; signal_score is the running score at line 1337
StrongOppositionPoints(signal_score, mtf_bias) ==
    IF signal_score > Points(55) /\ mtf_bias.overall_bias = "BEARISH"
       /\ mtf_bias.strength > 600
    THEN - Points(20)
    ELSE IF signal_score < Points(45) /\ mtf_bias.overall_bias = "BULLISH"
            /\ mtf_bias.strength > 600
    THEN Points(20)
    ELSE 0

StrongOppositionReasons(signal_score, mtf_bias) ==
    IF signal_score > Points(55) /\ mtf_bias.overall_bias = "BEARISH"
       /\ mtf_bias.strength > 600
    THEN << "Strong bearish MTF opposes developing bullish signal." >>
    ELSE IF signal_score < Points(45) /\ mtf_bias.overall_bias = "BULLISH"
            /\ mtf_bias.strength > 600
    THEN << "Strong bullish MTF opposes developing bearish signal." >>
    ELSE << >>

\* lines 1348-1355: volume
VolumePoints(indicators) ==
    LET volume_ratio == Get(indicators, "volume_ratio", 100)
    IN  IF volume_ratio > 150 THEN Points(5)
        ELSE IF volume_ratio < 70 THEN - Points(3)
        ELSE 0

VolumeFactors(indicators) ==
    LET volume_ratio == Get(indicators, "volume_ratio", 100)
    IN  IF volume_ratio > 150 THEN << "HIGH_VOLUME" >>
        ELSE IF volume_ratio < 70 THEN << "LOW_VOLUME" >>
        ELSE << >>

VolumeReasons(indicators) ==
    IF Get(indicators, "volume_ratio", 100) > 150
    THEN << "High volume confirmation" >>
    ELSE << >>

\* The locals of the try body at its return (line 1357)
SignalComponentsLocals(current_price, market_structure, order_blocks, fvgs, indicators, mtf_bias) ==
    LET active_obs  == GetActiveOrderBlocks(order_blocks, current_price)
        active_fvgs == GetActiveFvgs(fvgs, current_price)
        ob_points   == [i \in 1..Len(active_obs) |-> OrderBlockPoints(active_obs[i])]
        fvg_points  == [i \in 1..Len(active_fvgs) |-> FvgPoints(active_fvgs[i])]
        before_bias == Points(50) + StructurePoints(market_structure)
                       + SumSeq(ob_points) + SumSeq(fvg_points)
                       + EmaPoints(indicators) + MacdPoints(indicators)
                       + RsiPoints(indicators)
        after_bias  == before_bias + BiasPoints(mtf_bias)
        opposition  == StrongOppositionPoints(after_bias, mtf_bias)
    IN  [active_obs   |-> active_obs,
         active_fvgs  |-> active_fvgs,
         before_bias  |-> before_bias,
         after_bias   |-> after_bias,
         opposition   |-> opposition,
         signal_score |-> after_bias + opposition + VolumePoints(indicators),
         confluence_factors |->
             StructureFactors(market_structure)
             \o [i \in 1..Len(active_obs) |-> OrderBlockFactor(active_obs[i])]
             \o [i \in 1..Len(active_fvgs) |-> FvgFactor(active_fvgs[i])]
             \o << IF EmaBullish(indicators) THEN "EMA_BULLISH" ELSE "EMA_BEARISH" >>
             \o << IF MacdBullish(indicators) THEN "MACD_BULLISH" ELSE "MACD_BEARISH" >>
             \o RsiFactors(indicators)
             \o BiasFactors(mtf_bias)
             \o VolumeFactors(indicators),
         reasons |->
             StructureReasons(market_structure)
             \o [i \in 1..Len(active_obs) |-> OrderBlockReason(active_obs[i])]
             \o [i \in 1..Len(active_fvgs) |-> FvgReason(active_fvgs[i])]
             \o << IF EmaBullish(indicators) THEN "EMAs aligned bullish"
                   ELSE "EMAs aligned bearish" >>
             \o RsiReasons(indicators)
             \o BiasReasons(mtf_bias)
             \o StrongOppositionReasons(after_bias, mtf_bias)
             \o VolumeReasons(indicators)]

\* lines 1357-1362: the dict returned
CalculateSignalComponents(current_price, market_structure, order_blocks, fvgs, indicators, mtf_bias) ==
    LET loc == SignalComponentsLocals(current_price, market_structure, order_blocks,
                                      fvgs, indicators, mtf_bias)
    IN  [signal_score       |-> Max(0, Min(Points(100), loc.signal_score)),
         confluence_count   |-> Cardinality({ loc.confluence_factors[i] :
                                    i \in 1..Len(loc.confluence_factors) }),
         confluence_factors |-> loc.confluence_factors,
         reasons            |-> HeadRows(loc.reasons, 5)]

\* _get_minimal_indicators, lines 1015-1036, for a last close in dollars
MinimalIndicators(current_price) ==
    [sma_20 |-> 100 * current_price, ema_12 |-> 100 * current_price,
     rsi_14 |-> 50, macd |-> 0, macd_signal |-> 0,
     atr_14 |-> current_price, volume_ratio |-> 100]

---------------------------------------------------------------------------
(* Specification SpecComponents: one call of _calculate_signal_components  *)
(* at the price BasePrice, on the outputs of the detectors, the indicator  *)
(* bank and the bias drawn from the sets below.                            *)

ComponentStructures ==
    [structure : { "BULLISH", "BEARISH" }, strength : { 50, 100 }]
    \cup { [structure |-> "RANGING", strength |-> 40],
           [structure |-> "UNKNOWN", strength |-> 0] }

\* an order block reaching from BasePrice - below to BasePrice + above
BlockAround(type, below, above, strength) ==
    [type |-> type, low |-> BasePrice - below, high |-> BasePrice + above,
     strength |-> strength, tested |-> FALSE]

\* lists of order blocks: none, one of each type, one out of reach, and
\* lists of several active ones (more than the three the helper keeps)
ComponentOrderBlocks ==
    { << >>,
      << BlockAround("BULLISH_OB", 5, 1, 100) >>,
      << BlockAround("BEARISH_OB", 3, 0, 65) >>,
      << BlockAround("BULLISH_OB", -10, 12, 100) >>,
      << BlockAround("BULLISH_OB", 5, 1, 100), BlockAround("BULLISH_OB", -1, 4, 80) >>,
      << BlockAround("BEARISH_OB", 30, 30, 100), BlockAround("BULLISH_OB", -1, 4, 80),
         BlockAround("BULLISH_OB", 5, 1, 100), BlockAround("BEARISH_OB", 3, 0, 65) >> }

\* a gap reaching from BasePrice - below to BasePrice + above
GapAround(type, below, above, momentum, filled) ==
    [type |-> type, low |-> BasePrice - below, high |-> BasePrice + above,
     gap_size |-> below + above, momentum_strength |-> momentum, filled |-> filled]

\* lists of gaps: none, one of each type, gaps that are filled or nearly
\* so, and more active gaps than the two the helper keeps
ComponentFvgs ==
    { << >>,
      << GapAround("BULLISH_FVG", 1, 4, 50000, FALSE) >>,
      << GapAround("BEARISH_FVG", 4, 1, 100000, FALSE) >>,
      << GapAround("BULLISH_FVG", 9, 1, 30000, FALSE),
         GapAround("BEARISH_FVG", 4, 1, 100000, TRUE) >>,
      << GapAround("BULLISH_FVG", 2, 6, 50000, FALSE),
         GapAround("BEARISH_FVG", 4, 1, 100000, FALSE),
         GapAround("BULLISH_FVG", 1, 4, 50000, FALSE) >> }

\* the indicator dicts: the full bank, the minimal indicators of a frame of
\* fewer than 50 bars, and the error dict of line 1038
ComponentIndicators ==
    [ema_12 : { 100 * BasePrice }, ema_26 : { 100 * BasePrice - 500, 100 * BasePrice },
     macd : { -50, 50 }, macd_signal : { 0 },
     rsi_14 : { 25, 40, 50, 75 }, volume_ratio : { 50, 150, 200 }]
    \cup { MinimalIndicators(BasePrice), [error |-> "Unable to calculate indicators"] }

ComponentBiases ==
    [overall_bias : { "BULLISH", "BEARISH" }, strength : { 296, 600, 1000 }]
    \cup [overall_bias : { "NEUTRAL" }, strength : { 0, 500 }]

ComponentCalls ==
    [current_price : { BasePrice }, market_structure : ComponentStructures,
     order_blocks : ComponentOrderBlocks, fvgs : ComponentFvgs,
     indicators : ComponentIndicators, mtf_bias : ComponentBiases]

InitComponents ==
    /\ pc = "ready"
    /\ call \in ComponentCalls
    /\ clock = 0
    /\ locals = NoLocals
    /\ response = NoResponse
    /\ frame = NoFrame
    /\ log = << >>

\* signal_data = self._calculate_signal_components(...), line 1094
CallCalculateSignalComponents ==
    /\ pc = "ready"
    /\ locals' = SignalComponentsLocals(call.current_price, call.market_structure,
                                        call.order_blocks, call.fvgs,
                                        call.indicators, call.mtf_bias)
    /\ response' = CalculateSignalComponents(call.current_price, call.market_structure,
                                             call.order_blocks, call.fvgs,
                                             call.indicators, call.mtf_bias)
    /\ pc' = "returned"
    /\ UNCHANGED <<call, clock, frame, log>>

NextComponents == CallCalculateSignalComponents

SpecComponents == InitComponents /\ [][NextComponents]_vars

---------------------------------------------------------------------------
(* Claims about the decision (specification Spec)                          *)

Returned == pc = "returned"

Decided == pc = "returned" /\ call.data = "ok" /\ ~locals.raised

Directional(d) == d \in { "BUY", "SELL" }

\* C1: a returned BUY or SELL carries a risk_reward of at least 1.5.
C1_DirectionalHasMinRR ==
    (Decided /\ Directional(response.signal))
        => response.trading_levels.risk_reward_ratio >= 150

\* C1 witness: a score classified BUY or SELL went through the risk filter.
C1_Witness ==
    /\ Decided
    /\ Directional(locals.class_direction)
    /\ locals.rr_filter_fired
    /\ response.signal = "HOLD"

\* C2: a returned BUY or SELL has confidence at least 40, and a directional
\* classification whose confidence after the multi-timeframe penalty and the
\* risk filter is below 40 is returned as HOLD.
C2_ConfidenceFloor ==
    Decided =>
        /\ (Directional(response.signal) => response.confidence >= 400)
        /\ ((Directional(locals.class_direction)
              /\ locals.postfilter_confidence < 4000)
                => response.signal = "HOLD")

\* C2 witness: a directional classification left below 40 and returned as HOLD.
C2_Witness ==
    /\ Decided
    /\ locals.class_direction = "SELL"
    /\ locals.postfilter_confidence < 4000
    /\ response.signal = "HOLD"

\* C3: every returned signal, on every path, has confidence in [0, 95] and a
\* direction among BUY, SELL, HOLD.
C3_ConfidenceAndDirectionInRange ==
    Returned =>
        /\ response.confidence >= 0
        /\ response.confidence <= 950
        /\ response.signal \in { "BUY", "SELL", "HOLD" }

\* C3 witness: the risk filter took 40 off a confidence below 40 and the
\* returned confidence is the lower bound 0.
C3_Witness ==
    /\ Decided
    /\ locals.rr_filter_fired
    /\ locals.prefilter_confidence < 4000
    /\ response.confidence = 0

\* C5 as claimed: when the risk filter fires the returned direction is HOLD
\* and the returned confidence is the pre-filter confidence minus 40, for
\* every pre-filter confidence (the returned value being rounded to 0.1).
C5_Original ==
    (Decided /\ locals.rr_filter_fired) =>
        /\ response.signal = "HOLD"
        /\ response.confidence
             = RoundHalfEven(locals.prefilter_confidence - 4000, 10)

\* C5 amended: when the risk filter fires the returned direction is HOLD and
\* the returned confidence is the pre-filter confidence minus 40, floored at
\* 0 (and rounded to one decimal).
C5_PenaltyFlooredAtZero ==
    (Decided /\ locals.rr_filter_fired) =>
        /\ response.signal = "HOLD"
        /\ response.confidence
             = RoundHalfEven(Max(0, locals.prefilter_confidence - 4000), 10)

\* C5 witness: the filter fired on a pre-filter confidence above 40, and on
\* one the rounding of which is not the identity.
C5_Witness ==
    /\ Decided
    /\ locals.rr_filter_fired
    /\ locals.prefilter_confidence > 4000
    /\ locals.prefilter_confidence % 10 # 0
    /\ response.confidence * 10 # locals.prefilter_confidence - 4000

\* C6: the classification of the score: score >= 65 with count >= 3 is BUY
\* and score <= 35 with count >= 3 is SELL, confidence at most 95; otherwise
\* score >= 60 is BUY and score <= 40 is SELL, confidence at most 85; every
\* other input is HOLD.
C6_Classification ==
    Decided =>
        LET score == call.signal_data.signal_score
            count == call.signal_data.confluence_count
            d     == locals.class_direction
            c     == locals.class_confidence
        IN  IF score >= 6500 /\ count >= 3 THEN d = "BUY" /\ c <= 9500
            ELSE IF score <= 3500 /\ count >= 3 THEN d = "SELL" /\ c <= 9500
            ELSE IF score >= 6000 THEN d = "BUY" /\ c <= 8500
            ELSE IF score <= 4000 THEN d = "SELL" /\ c <= 8500
            ELSE d = "HOLD"

\* C6 witness: a score of exactly 60 classified BUY under the looser
\* condition, with fewer than 3 factors.
C6_Witness ==
    /\ Decided
    /\ call.signal_data.signal_score = 6000
    /\ call.signal_data.confluence_count < 3
    /\ locals.class_direction = "BUY"

---------------------------------------------------------------------------
(* Claims about the detectors (specification SpecDetect)                   *)

Detected(op) == pc = "returned" /\ call.op = op

\* C9 as stated: on a series of fewer than 20 bars identify_market_structure
\* returns UNKNOWN with strength 0 and the three detectors return [].
C9_ShortSeriesGivesNothing ==
    (pc = "returned" /\ Len(frame.bars) < 20)
        => /\ call.op = "identify_market_structure"
               => response = [structure |-> "UNKNOWN", strength |-> 0]
           /\ call.op \in { "find_order_blocks", "find_fair_value_gaps",
                             "find_liquidity_pools" }
               => response = << >>

StrictlyIncreasing(s) == \A i \in 2..Len(s) : s[i] > s[i - 1]

\* The frame has at least 20 bars, at least 4 swing highs and 4 swing lows,
\* and the last 4 of each are strictly increasing.
RisingSwings ==
    /\ Len(frame.bars) >= 20
    /\ Len(StructureSwingHighs(frame.bars)) >= 4
    /\ Len(StructureSwingLows(frame.bars)) >= 4
    /\ StrictlyIncreasing(TailRows(StructureSwingHighs(frame.bars), 4))
    /\ StrictlyIncreasing(TailRows(StructureSwingLows(frame.bars), 4))

\* C10: on a series of at least 20 bars whose last 4 swing highs and last 4
\* swing lows are strictly increasing, identify_market_structure answers
\* BULLISH with a strength of at least 75 and at most 100.
C10_RisingSwingsAreBullish ==
    (Detected("identify_market_structure") /\ RisingSwings)
        => /\ response.structure = "BULLISH"
           /\ response.strength >= 75
           /\ response.strength <= 100

\* C10 witness: the analyzer has answered on a frame with rising swings.
C10_Witness ==
    /\ Detected("identify_market_structure")
    /\ RisingSwings
    /\ response.structure = "BULLISH"

---------------------------------------------------------------------------
(* Claims about the engine (specification SpecEngine)                      *)

\* the upstream answers no interval with 10 rows or more, so that
\* get_multi_timeframe_data yields no timeframe
NoTimeframe == \A tf \in DOMAIN call.upstream : Len(call.upstream[tf].bars) < 10

\* the keys of a signal of generate_real_ict_signal that the model carries
SignalKeys ==
    { "signal", "confidence", "current_price", "multi_timeframe",
      "trading_levels", "signal_reasoning", "confluence_factors",
      "signal_quality", "market_context", "analysis_time", "data_quality" }

\* C4: when get_multi_timeframe_data yields no timeframe, every call returns
\* a fully formed signal with direction HOLD, confidence 50, data_quality
\* FALLBACK_MODE and the reason "Market data unavailable".
C4_NoDataGivesFallback ==
    NoTimeframe =>
        \A i \in 1..Len(log) :
            /\ DOMAIN log[i] = SignalKeys
            /\ log[i].signal = "HOLD"
            /\ log[i].confidence = 500
            /\ log[i].data_quality = "FALLBACK_MODE"
            /\ \E r \in 1..Len(log[i].signal_reasoning) :
                   log[i].signal_reasoning[r] = "Market data unavailable"

\* C4 witness: a call has returned while the upstream had nothing.
C4_Witness ==
    /\ NoTimeframe
    /\ Len(log) >= 1
    /\ response.data_quality = "FALLBACK_MODE"

\* C7 as stated: the calls of a behaviour, which all receive the same bar
\* series, return the same signal in every field, whatever the clock.
C7_SameDataSameSignal ==
    \A i, j \in 1..Len(log) : log[i] = log[j]

\* exactly one interval is answered with bars, and with at least 20
OnlyPrimaryHasBars ==
    \E tf \in DOMAIN call.upstream :
        /\ Len(call.upstream[tf].bars) >= 20
        /\ \A other \in DOMAIN call.upstream \ { tf } :
               Len(call.upstream[other].bars) = 0

\* C8 as stated: when only the primary timeframe carries bars (at least
\* 20), the call returns a non-fallback signal whose
\* multi_timeframe.overall_bias is NEUTRAL.
C8_PrimaryOnlyIsNeutral ==
    (OnlyPrimaryHasBars /\ Len(log) >= 1)
        => /\ response.data_quality = "REAL_MARKET_DATA"
           /\ response.multi_timeframe.overall_bias = "NEUTRAL"


---------------------------------------------------------------------------
(* Claims about fair value gaps (specifications SpecDetect and SpecFill)   *)

\* C11: every gap built by find_fair_value_gaps has a fill_percentage within
\* [0, 100] and is marked filled exactly when its fill_percentage is at
\* least 100; so every gap returned has a fill_percentage below 100.
C11_FillWithinRangeAndFilledFlag ==
    Detected("find_fair_value_gaps") =>
        /\ \A i \in 1..Len(locals.fvgs) :
              /\ locals.fvgs[i].fill_percentage >= 0
              /\ locals.fvgs[i].fill_percentage <= 100000
              /\ locals.fvgs[i].filled <=> locals.fvgs[i].fill_percentage >= 100000
        /\ \A i \in 1..Len(response) : response[i].fill_percentage < 100000

\* C11 witness: the detector built a filled gap, a partly filled gap and an
\* untouched one, and returned some.
C11_Witness ==
    /\ Detected("find_fair_value_gaps")
    /\ \E i \in 1..Len(locals.fvgs) : locals.fvgs[i].filled
    /\ \E i \in 1..Len(locals.fvgs) :
           /\ locals.fvgs[i].fill_percentage > 0
           /\ locals.fvgs[i].fill_percentage < 100000
    /\ \E i \in 1..Len(locals.fvgs) : locals.fvgs[i].fill_percentage = 0
    /\ Len(response) >= 1

\* p2 lies as far as p1 or further in the filling direction of the gap
FurtherInFillingDirection ==
    IF call.fvg.type = "BULLISH_FVG" THEN call.p2 >= call.p1
    ELSE call.p2 <= call.p1

\* price p has not touched the gap / has fully crossed it
Untouched(p) ==
    IF call.fvg.type = "BULLISH_FVG" THEN p <= call.fvg.low ELSE p >= call.fvg.high

Crossed(p) ==
    IF call.fvg.type = "BULLISH_FVG" THEN p >= call.fvg.high ELSE p <= call.fvg.low

\* C12: for a fixed gap the fill percentage does not decrease as the price
\* moves in the filling direction (up for a BULLISH_FVG, down for a
\* BEARISH_FVG); it is 0 before the gap is touched and 100 once crossed.
C12_FillMonotonic ==
    (pc = "returned" /\ "fvg" \in DOMAIN call) =>
        /\ FurtherInFillingDirection => response.fill2 >= response.fill1
        /\ Untouched(call.p1) => response.fill1 = 0
        /\ Crossed(call.p1) => response.fill1 = 100000

\* C12 witness: two prices strictly inside a gap, the second further in the
\* filling direction and with a strictly larger fill.
C12_Witness ==
    /\ pc = "returned"
    /\ "fvg" \in DOMAIN call
    /\ call.fvg.type = "BEARISH_FVG"
    /\ call.p2 < call.p1
    /\ response.fill1 > 0
    /\ response.fill2 > response.fill1
    /\ response.fill2 < 100000

---------------------------------------------------------------------------
(* Claims on the quality label, the reasoning list and the risk filter,    *)
(* under Spec.                                                             *)

NonFallback == pc = "returned" /\ response.data_quality = "REAL_MARKET_DATA"

\* C13: the signal_quality of every non-fallback signal is the lookup on the
\* returned confidence and the confluence count: EXCELLENT from 85 with 5
\* factors, VERY_GOOD from 75 with 4, GOOD from 65 with 3, FAIR from 55
\* with 2, POOR otherwise.
C13_QualityIsLookup ==
    NonFallback =>
        LET c == response.confidence
            n == response.confluence_factors
            q == response.signal_quality
        IN  /\ q = "EXCELLENT" <=> (c >= 850 /\ n >= 5)
            /\ q = "VERY_GOOD" <=> (~(c >= 850 /\ n >= 5) /\ c >= 750 /\ n >= 4)
            /\ q = "GOOD" <=> (~(c >= 750 /\ n >= 4) /\ c >= 650 /\ n >= 3)
            /\ q = "FAIR" <=> (~(c >= 650 /\ n >= 3) /\ c >= 550 /\ n >= 2)
            /\ q = "POOR" <=> ~(c >= 550 /\ n >= 2)

\* a filtered signal that is returned with confidence 55 and labelled FAIR
C13_Witness ==
    /\ NonFallback
    /\ ~locals.raised
    /\ locals.rr_filter_fired
    /\ response.confidence = 550
    /\ response.confluence_factors >= 2
    /\ response.signal_quality = "FAIR"

\* C14: the reasoning list of every returned signal holds between 3 and 5
\* entries, on every path, the fallback included.
C14_ReasoningBetweenThreeAndFive ==
    Returned =>
        /\ Len(response.signal_reasoning) >= 3
        /\ Len(response.signal_reasoning) <= 5

---------------------------------------------------------------------------
(* Claims on the detectors' effect on the frame and on the bounds of the   *)
(* zones they return, under SpecDetect.                                    *)

\* C15: the bar series passed to a detector is unchanged by the call: the
\* same bars and the same fields as before.
C15_BarSeriesUnchanged == [][frame' = frame]_vars

HighNotBelowLow(bars) == \A i \in 1..Len(bars) : bars[i].High >= bars[i].Low

\* C16: for bars with high >= low, every order block returned by
\* find_order_blocks and every gap returned by find_fair_value_gaps has
\* high >= low.
C16_ZonesHaveHighNotBelowLow ==
    (/\ pc = "returned"
     /\ call.op \in { "find_order_blocks", "find_fair_value_gaps" }
     /\ HighNotBelowLow(frame.bars))
        => \A i \in 1..Len(response) : response[i].high >= response[i].low

\* a series for which both detectors return zones of positive height
C16_Witness ==
    /\ Detected("find_order_blocks")
    /\ HighNotBelowLow(frame.bars)
    /\ \E i \in 1..Len(response) : response[i].high > response[i].low
    /\ \E g \in { BuiltFairValueGaps(frame)[i] :
                    i \in 1..Len(BuiltFairValueGaps(frame)) } :
           ~g.filled /\ g.high > g.low

---------------------------------------------------------------------------
(* Claims on the levels, the risk filter and the bias penalty, under Spec. *)

C20_BiasPenalty ==
    Decided =>
        LET d    == locals.class_direction
            c    == locals.class_confidence
            bias == call.mtf_bias.overall_bias
            opposing == \/ (d = "BUY" /\ bias = "BEARISH")
                        \/ (d = "SELL" /\ bias = "BULLISH")
            after == IF bias = "NEUTRAL" THEN c - 1500
                     ELSE IF opposing THEN c - 3000
                     ELSE c
        IN  IF d = "HOLD"
            THEN c = 5000 /\ locals.prefilter_confidence = 5000
            ELSE locals.prefilter_confidence = Max(0, Min(9500, after))

\* a SELL classification against a BULLISH bias loses 30 points
C20_Witness ==
    /\ Decided
    /\ locals.class_direction = "SELL"
    /\ call.mtf_bias.overall_bias = "BULLISH"
    /\ locals.class_confidence = 8500
    /\ locals.prefilter_confidence = 5500

---------------------------------------------------------------------------
(* Claims on the signal score, under SpecComponents.                       *)

\* the sum of the adjustments of the claim, from the inputs of the call and
\* the active zones, in ten-thousandths of a point
AdjustedScore ==
    LET ms   == call.market_structure
        ind  == call.indicators
        bias == call.mtf_bias
        obs  == locals.active_obs
        gaps == locals.active_fvgs
        has(k) == k \in DOMAIN ind
        structure == IF ms.structure = "BULLISH" THEN 2000 * ms.strength
                     ELSE IF ms.structure = "BEARISH" THEN 0 - 2000 * ms.strength
                     ELSE 0
        blocks == SumSeq([i \in 1..Len(obs) |->
                      IF obs[i].type = "BULLISH_OB"
                      THEN Min(1500 * obs[i].strength, 150000)
                      ELSE 0 - Min(1500 * obs[i].strength, 150000)])
        fvgs == SumSeq([i \in 1..Len(gaps) |->
                      IF gaps[i].type = "BULLISH_FVG"
                      THEN Min(gaps[i].momentum_strength, 100000)
                      ELSE 0 - Min(gaps[i].momentum_strength, 100000)])
        ema12 == IF has("ema_12") THEN ind.ema_12 ELSE 0
        ema26 == IF has("ema_26") THEN ind.ema_26 ELSE 0
        ema  == IF ema12 > ema26 THEN 80000 ELSE 0 - 80000
        macd_line   == IF has("macd") THEN ind.macd ELSE 0
        macd_signal == IF has("macd_signal") THEN ind.macd_signal ELSE 0
        macd == IF macd_line > macd_signal THEN 50000 ELSE 0 - 50000
        rsi14 == IF has("rsi_14") THEN ind.rsi_14 ELSE 50
        rsi  == IF rsi14 < 30 THEN 100000
                ELSE IF rsi14 > 70 THEN 0 - 100000
                ELSE IF rsi14 > 40 /\ rsi14 < 60 THEN 20000
                ELSE 0
        mtf  == IF bias.overall_bias = "BULLISH" THEN 250 * bias.strength
                ELSE IF bias.overall_bias = "BEARISH" THEN 0 - 250 * bias.strength
                ELSE 0
        running == 500000 + structure + blocks + fvgs + ema + macd + rsi + mtf
        opposition ==
            IF bias.strength > 600 /\ bias.overall_bias = "BEARISH" /\ running > 550000
            THEN 0 - 200000
            ELSE IF bias.strength > 600 /\ bias.overall_bias = "BULLISH"
                    /\ running < 450000
            THEN 200000
            ELSE 0
        ratio  == IF has("volume_ratio") THEN ind.volume_ratio ELSE 100
        volume == IF ratio > 150 THEN 50000
                  ELSE IF ratio < 70 THEN 0 - 30000
                  ELSE 0
    IN  Max(0, Min(1000000, running + opposition + volume))

\* no structure, no active zone, a neutral bias and the minimal indicators
NoFactorNeutralIndicators ==
    /\ call.market_structure.structure \notin { "BULLISH", "BEARISH" }
    /\ locals.active_obs = << >>
    /\ locals.active_fvgs = << >>
    /\ call.mtf_bias.overall_bias = "NEUTRAL"
    /\ call.indicators = MinimalIndicators(call.current_price)

\* C18 as stated: the score is 50 plus the adjustments in order, clamped to
\* [0, 100], and with no factor present and neutral indicators it is 50.
C18_Original ==
    Returned =>
        /\ response.signal_score = AdjustedScore
        /\ NoFactorNeutralIndicators => response.signal_score = 500000

\* C18 amended: the score is 50 plus the adjustments in order, clamped to
\* [0, 100]; the EMA and MACD adjustments are always applied, so with no
\* factor present and the minimal indicators the score is 50 + 8 - 5 + 2 =
\* 55.
C18_ScoreIsSumOfAdjustments ==
    Returned =>
        /\ response.signal_score = AdjustedScore
        /\ NoFactorNeutralIndicators => response.signal_score = 550000

\* no factor and the minimal indicators: the score returned is 55
C18_Witness ==
    /\ Returned
    /\ NoFactorNeutralIndicators
    /\ call.order_blocks # << >>
    /\ response.signal_score = 550000
    /\ response.confluence_count = 2

\* C19: 20 points are moved against the lean exactly when the bias has a
\* strength above 60 and opposes the running score (BEARISH above 55,
\* BULLISH below 45), the running score being the one after the bias
\* adjustment and before the volume adjustment; otherwise nothing is moved.
C19_StrongOpposition ==
    Returned =>
        LET bias    == call.mtf_bias
            running == locals.after_bias
            strong  == bias.strength > 600
            volume  == locals.signal_score - locals.after_bias - locals.opposition
        IN  /\ locals.after_bias = locals.before_bias
                   + (IF bias.overall_bias = "BULLISH" THEN 250 * bias.strength
                      ELSE IF bias.overall_bias = "BEARISH" THEN 0 - 250 * bias.strength
                      ELSE 0)
            /\ volume \in { 0 - 30000, 0, 50000 }
            /\ (strong /\ bias.overall_bias = "BEARISH" /\ running > 550000)
                   => locals.opposition = 0 - 200000
            /\ (strong /\ bias.overall_bias = "BULLISH" /\ running < 450000)
                   => locals.opposition = 200000
            /\ ~(strong /\ \/ (bias.overall_bias = "BEARISH" /\ running > 550000)
                           \/ (bias.overall_bias = "BULLISH" /\ running < 450000))
                   => locals.opposition = 0
            /\ response.signal_score
                   = Max(0, Min(1000000, locals.signal_score))

\* a strongly bearish bias against a running score above 55
C19_Witness ==
    /\ Returned
    /\ call.mtf_bias.overall_bias = "BEARISH"
    /\ call.mtf_bias.strength = 1000
    /\ locals.after_bias > 550000
    /\ locals.after_bias < 600000
    /\ locals.opposition = 0 - 200000
    /\ response.signal_score < 450000

---------------------------------------------------------------------------
(* Claims on the trade levels, under Spec.  locals.levels holds the levels *)
(* before rounding, in units of 0.00005; the entry zone is in cents.       *)

\* the entry zone is the price -0.1% to +0.1%, each bound rounded to the cent
EntryZoneAroundPrice ==
    /\ Abs(1000 * locals.levels.entry_zone.low - 999 * call.current_price) <= 500
    /\ Abs(1000 * locals.levels.entry_zone.high - 1001 * call.current_price) <= 500
    /\ locals.levels.entry_zone.low < call.current_price
    /\ locals.levels.entry_zone.high > call.current_price

\* stop, target 1 and target 2 at 1.5, 2 and 3.5 x ATR on the sides given
\* by sign (1 for BUY, -1 for SELL)
LevelsAtAtrMultiples(sign) ==
    LET p == 200 * call.current_price
    IN  /\ 2 * (p - locals.levels.stop_loss) = sign * 3 * locals.atr
        /\ locals.levels.tp1 - p = sign * 2 * locals.atr
        /\ 2 * (locals.levels.tp2 - p) = sign * 7 * locals.atr

DirectionalLevels ==
    /\ locals.class_direction = "BUY" =>
           /\ LevelsAtAtrMultiples(1)
           /\ locals.levels.stop_loss < 200 * call.current_price
           /\ 200 * call.current_price < locals.levels.tp1
           /\ locals.levels.tp1 < locals.levels.tp2
    /\ locals.class_direction = "SELL" =>
           /\ LevelsAtAtrMultiples(-1)
           /\ locals.levels.stop_loss > 200 * call.current_price
           /\ 200 * call.current_price > locals.levels.tp1
           /\ locals.levels.tp1 > locals.levels.tp2

\* C21 as stated: the entry zone is the price -0.1% to +0.1%; a BUY
\* classification has stop, target 1 and target 2 at price - 1.5 ATR,
\* + 2 ATR and + 3.5 ATR, a SELL the mirror image, so stop < price <
\* target 1 < target 2 for BUY and the reverse for SELL.
C21_Original ==
    Decided => (EntryZoneAroundPrice /\ DirectionalLevels)

\* C21 amended: the entry zone of a BUY or SELL classification is the price
\* -0.1% to +0.1%, rounded to the cent, with the levels as stated; a HOLD
\* classification has an entry zone of low = high = price and all three
\* levels at the price.
C21_TradeLevels ==
    Decided =>
        /\ DirectionalLevels
        /\ Directional(locals.class_direction) => EntryZoneAroundPrice
        /\ locals.class_direction = "HOLD" =>
               /\ locals.levels.entry_zone.low = call.current_price
               /\ locals.levels.entry_zone.high = call.current_price
               /\ locals.levels.stop_loss = 200 * call.current_price
               /\ locals.levels.tp1 = 200 * call.current_price
               /\ locals.levels.tp2 = 200 * call.current_price

\* a SELL classification at 1950.55 with ATR 12.50: stop above, targets below
C21_Witness ==
    /\ Decided
    /\ locals.class_direction = "SELL"
    /\ call.current_price = 195055
    /\ locals.atr = 250000
    /\ response.trading_levels.stop_loss = Cents(196930)
    /\ response.trading_levels.take_profit_1 = Cents(192555)
    /\ response.trading_levels.take_profit_2 = Cents(190680)
    /\ response.trading_levels.entry_zone.low = Cents(194860)
    /\ response.trading_levels.entry_zone.high = Cents(195250)

\* C22: every signal returned with direction HOLD carries flat trade
\* levels: stop_loss = take_profit_1 = take_profit_2 = current price, entry
\* zone low = high, risk_reward = 0.
C22_HoldHasFlatLevels ==
    (Returned /\ response.signal = "HOLD") =>
        /\ response.trading_levels.stop_loss = response.current_price
        /\ response.trading_levels.take_profit_1 = response.current_price
        /\ response.trading_levels.take_profit_2 = response.current_price
        /\ response.trading_levels.entry_zone.low
               = response.trading_levels.entry_zone.high
        /\ response.trading_levels.risk_reward_ratio = 0

---------------------------------------------------------------------------
(* Claim on the per-timeframe bias score, under SpecBias.                  *)

\* 50 plus the signed distance of the last close from the mean of the last
\* min(20, n) closes, as a fraction of the mean times 1000, capped at 30;
\* in hundredths, the distance rounded up
FiftyPlusDistance(bars) ==
    LET n      == Len(bars)
        window == Min(20, n)
        total  == SumSeq([i \in 1..window |-> bars[n - window + i].Close])
        close  == bars[n].Close
        distance == (100000 * Abs(close * window - total) + total - 1) \div total
    IN  IF close * window >= total THEN 5000 + Min(distance, 3000)
        ELSE 5000 - Min(distance, 3000)

\* C23: for every timeframe with at least 10 bars the bias score is 50 plus
\* the signed, capped distance of the last close from its rolling mean; it
\* is 50 when the close equals the mean and lies within [20, 80].
C23_ScoreIsFiftyPlusDistance ==
    Returned =>
        \A tf \in DOMAIN response.details :
            /\ response.details[tf]
                   = FiftyPlusDistance(GetMultiTimeframeData(call.upstream)[tf].bars)
            /\ response.details[tf] >= 2000
            /\ response.details[tf] <= 8000

---------------------------------------------------------------------------
(* Claim on the factors counted as confluence, under SpecComponents.  The  *)
(* scores drawn there are whole hundredths of a point.                     *)

BearishTags ==
    { "BEARISH_STRUCTURE", "BEARISH_ORDER_BLOCK", "BEARISH_FVG", "EMA_BEARISH",
      "MACD_BEARISH", "RSI_OVERBOUGHT", "MTF_BEARISH" }

BullishTags ==
    { "BULLISH_STRUCTURE", "BULLISH_ORDER_BLOCK", "BULLISH_FVG", "EMA_BULLISH",
      "MACD_BULLISH", "RSI_OVERSOLD", "MTF_BULLISH" }

\* the tags counted by confluence_count
CountedTags ==
    { response.confluence_factors[i] : i \in 1..Len(response.confluence_factors) }

\* the direction step 3 of the decision gives the returned components
StepThreeDirection ==
    ClassifyScore(response.signal_score \div 100, response.confluence_count).direction

\* C24: the factors counted in confluence_count agree with the step-3
\* direction: under a BUY classification no bearish tag is counted, under a
\* SELL classification no bullish tag.
C24_CountedFactorsAgree ==
    Returned =>
        /\ response.confluence_count = Cardinality(CountedTags)
        /\ StepThreeDirection = "BUY" => CountedTags \cap BearishTags = {}
        /\ StepThreeDirection = "SELL" => CountedTags \cap BullishTags = {}

---------------------------------------------------------------------------
(* Claims on what the detectors keep, under SpecDetect.                    *)

\* the elements of a list
Elements(s) == { s[i] : i \in 1..Len(s) }

\* the keys of a list never increase
NonIncreasing(key) == \A i \in 1..(Len(key) - 1) : key[i] >= key[i + 1]

\* C25: find_fair_value_gaps returns at most 5 gaps, none of them filled,
\* ordered by momentum strength, and no unfilled gap left out is more
\* recent than a gap returned.
C25_MostRecentUnfilledGaps ==
    Detected("find_fair_value_gaps") =>
        LET unfilled == { g \in Elements(BuiltFairValueGaps(frame)) : ~g.filled }
        IN  /\ Len(response) <= 5
            /\ Elements(response) \subseteq unfilled
            /\ NonIncreasing(MomentumStrengths(response))
            /\ \A g \in unfilled \ Elements(response) :
                   \A r \in Elements(response) : g.timestamp < r.timestamp

\* the positions of `all` whose record is not in `kept`
Omitted(all, kept) ==
    { i \in 1..Len(all) : \A j \in 1..Len(kept) : kept[j] # all[i] }

\* at most 5 blocks, and no validated block left out is stronger than one
\* returned
FiveStrongestBlocks ==
    LET built == BuiltOrderBlocks(frame)
    IN  /\ Len(response) <= 5
        /\ Elements(response) \subseteq Elements(built)
        /\ Len(response) = Min(5, Len(built))
        /\ \A i \in Omitted(built, response) :
               \A j \in 1..Len(response) : built[i].strength <= response[j].strength

TradedBeyond(pool) ==
    \E k \in (pool.last_touch + 1)..Len(frame.bars) :
        IF pool.type = "SELL_SIDE_LIQUIDITY"
        THEN 100000 * frame.bars[k].High > 1001 * pool.level
        ELSE 100000 * frame.bars[k].Low < 999 * pool.level

\* a bar after the pool's most recent touch has closed beyond the level by
\* more than 0.1%
ClosedBeyond(pool) ==
    \E k \in (pool.last_touch + 1)..Len(frame.bars) :
        IF pool.type = "SELL_SIDE_LIQUIDITY"
        THEN 100000 * frame.bars[k].Close > 1001 * pool.level
        ELSE 100000 * frame.bars[k].Close < 999 * pool.level

\* only unswept pools, at most 6, the strongest, strongest first
SixStrongestUnswept ==
    LET checked == CheckedLiquidityPools(frame)
        active  == SelectSeq(checked, NotSwept)
    IN  /\ Len(response) = Min(6, Len(active))
        /\ Elements(response) \subseteq Elements(active)
        /\ NonIncreasing(Strengths(response))
        /\ \A i \in Omitted(active, response) :
               \A j \in 1..Len(response) : active[i].strength <= response[j].strength

\* C27 as stated: a pool is marked swept exactly when a bar after its most
\* recent touch closed beyond the level by more than 0.1%; only unswept
\* pools are returned, at most 6, in non-increasing order of strength.
C27_Original ==
    Detected("find_liquidity_pools") =>
        /\ \A pool \in Elements(CheckedLiquidityPools(frame)) :
               pool.swept <=> ClosedBeyond(pool)
        /\ SixStrongestUnswept

\* C27 amended: a pool is marked swept exactly when a bar after its most
\* recent touch traded beyond the level by more than 0.1% (high above a
\* sell-side level, low below a buy-side level), wherever it closed; only
\* unswept pools are returned, at most 6, in non-increasing order of
\* strength.
C27_SweptByExtremes ==
    Detected("find_liquidity_pools") =>
        /\ \A pool \in Elements(CheckedLiquidityPools(frame)) :
               pool.swept <=> TradedBeyond(pool)
        /\ \A j \in 1..Len(response) : ~TradedBeyond(response[j])
        /\ SixStrongestUnswept

\* a pool swept by a wick alone (no later close beyond its level) next to
\* a pool that is returned
C27_Witness ==
    /\ Detected("find_liquidity_pools")
    /\ Len(response) > 0
    /\ \E pool \in Elements(CheckedLiquidityPools(frame)) :
           pool.swept /\ ~ClosedBeyond(pool)

---------------------------------------------------------------------------
(* Specification SpecCache: MarketDataProvider.get_data called by two     *)
(* coroutines of one event loop, the background refresher and an          *)
(* on-demand request.  Here pc, call, locals and response are functions   *)
(* of the caller, frame is the provider's cache (cache key -> entry),     *)
(* clock is the wall clock in seconds and log lists the upstream fetches  *)
(* in the order the executor performed them.  A call is three steps: the  *)
(* coroutine runs to the await of run_in_executor, the executor thread    *)
(* runs _fetch_data_sync, the coroutine resumes.                          *)

Callers == { "background", "on_demand" }

\* <<period, interval>> of get_data (line 35) and get_current_price (line 85)
CacheKeys == { <<"30d", "1h">>, <<"1d", "1m">> }

cache_timeout == 60

\* Seconds between two readings of the wall clock, last reading, and the
\* number of upstream fetches followed.
CacheTickStep == 30

MaxCacheClock == 90

MaxFetches == 3

NoEntry == [cache_data |-> "none", cache_time |-> 0]

\* What ticker.history gives the executor thread: rows, an empty frame, or
\* an exception.
FetchOutcomes == { "rows", "empty", "raises" }

\* _fetch_data_sync, lines 66-80: None for an empty frame or an exception
FetchDataSync(outcome) == IF outcome = "rows" THEN "rows" ELSE "None"

\* lines 41-44: the cached frame still served at `now`
CacheHit(cache, cache_key, now) ==
    /\ cache[cache_key] # NoEntry
    /\ now - cache[cache_key].cache_time < cache_timeout

InitCache ==
    /\ pc = [c \in Callers |-> "idle"]
    /\ call = [c \in Callers |-> <<"30d", "1h">>]
    /\ clock = 0
    /\ locals = [c \in Callers |-> "None"]
    /\ response = [c \in Callers |-> "None"]
    /\ frame = [k \in CacheKeys |-> NoEntry]
    /\ log = << >>

\* the wall clock advances
CacheTick ==
    /\ clock + CacheTickStep <= MaxCacheClock
    /\ clock' = clock + CacheTickStep
    /\ UNCHANGED <<pc, call, locals, response, frame, log>>

\* get_data, lines 37-53: up to the await.  A fresh entry is returned at
\* once; otherwise the fetch is handed to the executor and the coroutine
\* is suspended.
GetDataBegin(c, cache_key) ==
    /\ pc[c] = "idle"
    /\ call' = [call EXCEPT ![c] = cache_key]
    /\ IF CacheHit(frame, cache_key, clock)
       THEN /\ response' = [response EXCEPT ![c] = frame[cache_key].cache_data]
            /\ UNCHANGED pc
       ELSE /\ Len(log) + Cardinality({ d \in Callers : pc[d] = "awaiting" }) < MaxFetches
            /\ pc' = [pc EXCEPT ![c] = "awaiting"]
            /\ UNCHANGED response
    /\ UNCHANGED <<clock, locals, frame, log>>

\* the executor thread runs _fetch_data_sync (lines 48-53, 66-80)
ExecutorFetch(c, outcome) ==
    /\ pc[c] = "awaiting"
    /\ locals' = [locals EXCEPT ![c] = FetchDataSync(outcome)]
    /\ log' = Append(log, [cache_key |-> call[c], time |-> clock,
                           data |-> FetchDataSync(outcome)])
    /\ pc' = [pc EXCEPT ![c] = "fetched"]
    /\ UNCHANGED <<call, clock, response, frame>>

\* get_data, lines 55-60: the coroutine resumes with the fetched data
GetDataResume(c) ==
    /\ pc[c] = "fetched"
    /\ frame' = IF locals[c] # "None"
                 THEN [frame EXCEPT ![call[c]] =
                          [cache_data |-> locals[c], cache_time |-> clock]]
                 ELSE frame
    /\ response' = [response EXCEPT ![c] = locals[c]]
    /\ pc' = [pc EXCEPT ![c] = "idle"]
    /\ UNCHANGED <<call, clock, locals, log>>

NextCache ==
    \/ CacheTick
    \/ \E c \in Callers, cache_key \in CacheKeys : GetDataBegin(c, cache_key)
    \/ \E c \in Callers, outcome \in FetchOutcomes : ExecutorFetch(c, outcome)
    \/ \E c \in Callers : GetDataResume(c)

SpecCache == InitCache /\ [][NextCache]_vars

\* C28 as stated: after a successful fetch for a cache key no further
\* upstream fetch for that key is made within the 60 seconds of the TTL,
\* also when two callers call get_data concurrently on a cold or expired
\* cache; and no failed or empty fetch is stored in the cache.
C28_OneFetchPerTtl ==
    /\ \A i \in 1..Len(log) : \A j \in (i + 1)..Len(log) :
           (log[i].cache_key = log[j].cache_key /\ log[i].data # "None")
               => log[j].time - log[i].time >= cache_timeout
    /\ \A k \in CacheKeys : frame[k] # NoEntry => frame[k].cache_data = "rows"

---------------------------------------------------------------------------
(* Specification SpecQuota: one user's row of the users table under the   *)
(* /start and /signal commands of the bot.  Here frame is the row         *)
(* (subscription_type, daily_signals_used, last_activity as a day         *)
(* number), clock is the calendar day, call and response are the last     *)
(* command and its reply, and log lists the commands processed with the   *)
(* day, whether can_receive_signal allowed the signal, and the counter    *)
(* left in the row.  The user is not an admin.  CURRENT_TIMESTAMP and     *)
(* datetime.now() are read as one clock.                                  *)

FREE_DAILY_LIMIT == 3

PREMIUM_DAILY_LIMIT == 50

\* Last calendar day and longest command history followed.
MaxDay == 2

MaxCommands == 5

\* can_receive_signal, line 166
DailyLimit(user) ==
    IF user.subscription_type = "premium" THEN PREMIUM_DAILY_LIMIT ELSE FREE_DAILY_LIMIT

\* reset_daily_signals, lines 182-193
ResetDailySignals(user) == [user EXCEPT !.daily_signals_used = 0]

\* can_receive_signal, lines 152-180: the answer and the row it leaves
CanReceiveSignal(user, today) ==
    IF user.subscription_type = "vip"
    THEN [allowed |-> TRUE, user |-> user]
    ELSE IF today > user.last_activity
    THEN [allowed |-> TRUE, user |-> ResetDailySignals(user)]
    ELSE [allowed |-> user.daily_signals_used < DailyLimit(user), user |-> user]

\* add_user on an existing user, lines 116-122
AddUser(user, today) == [user EXCEPT !.last_activity = today]

\* record_user_signal, lines 240-247
RecordUserSignal(user, today) ==
    [user EXCEPT !.daily_signals_used = @ + 1, !.last_activity = today]

\* The rows of day 0: a user active today who has used none, all but one
\* or all of the day's signals.
QuotaRow(s, u) ==
    [subscription_type |-> s, daily_signals_used |-> u, last_activity |-> 0]

QuotaUsers ==
    { QuotaRow("vip", 0) }
    \cup UNION { { QuotaRow(s, 0),
                   QuotaRow(s, DailyLimit(QuotaRow(s, 0)) - 1),
                   QuotaRow(s, DailyLimit(QuotaRow(s, 0))) } :
                 s \in { "free", "premium" } }

InitQuota ==
    /\ pc = "ready"
    /\ call = [op |-> "none"]
    /\ clock = 0
    /\ locals = NoLocals
    /\ response = NoResponse
    /\ frame \in QuotaUsers
    /\ log = << >>

\* the calendar day changes
Midnight ==
    /\ clock < MaxDay
    /\ clock' = clock + 1
    /\ UNCHANGED <<pc, call, locals, response, frame, log>>

\* main.py start, lines 100-130
StartCommand ==
    /\ Len(log) < MaxCommands
    /\ call' = [op |-> "/start"]
    /\ frame' = AddUser(frame, clock)
    /\ response' = [signal |-> "NONE", reply |-> "welcome"]
    /\ log' = Append(log, [command |-> "/start", day |-> clock, allowed |-> FALSE,
                           used |-> frame.daily_signals_used])
    /\ UNCHANGED <<pc, clock, locals>>

\* main.py signal_command, lines 239-380; analysis is the data_quality of
\* the signal generated
SignalCommand(analysis) ==
    LET check == CanReceiveSignal(frame, clock)
        user  == IF check.allowed /\ analysis # "FALLBACK_MODE"
                 THEN RecordUserSignal(check.user, clock)
                 ELSE check.user
    IN  /\ Len(log) < MaxCommands
        /\ call' = [op |-> "/signal"]
        /\ frame' = user
        /\ response' = [signal |-> "NONE",
                        reply |-> IF ~check.allowed THEN "limit_reached"
                                  ELSE IF analysis = "FALLBACK_MODE" THEN "unavailable"
                                  ELSE "analysis"]
        /\ log' = Append(log, [command |-> "/signal", day |-> clock,
                               allowed |-> check.allowed,
                               used |-> user.daily_signals_used])
        /\ UNCHANGED <<pc, clock, locals>>

NextQuota ==
    \/ Midnight
    \/ StartCommand
    \/ \E analysis \in { "REAL_TIME", "FALLBACK_MODE" } : SignalCommand(analysis)

SpecQuota == InitQuota /\ [][NextQuota]_vars

\* entry i of the log is the first /signal of its day
FirstSignalOfDay(i) ==
    /\ log[i].command = "/signal"
    /\ \A j \in 1..(i - 1) :
           log[j].command = "/signal" => log[j].day # log[i].day

\* before entry i, a /signal of day d was allowed and recorded as the last
\* of that day's quota
ReachedLimitOn(d, i) ==
    \E j \in 1..(i - 1) :
        /\ log[j].day = d
        /\ log[j].command = "/signal"
        /\ log[j].allowed
        /\ log[j].used = DailyLimit(frame)

\* C29 as stated: a non-VIP user whose daily_signals_used reached the daily
\* limit on one calendar day is allowed again by can_receive_signal on the
\* first /signal of the next day, whatever commands (/start in particular)
\* were processed earlier that day.
C29_QuotaResetsNextDay ==
    frame.subscription_type # "vip" =>
        \A i \in 1..Len(log) :
            (FirstSignalOfDay(i) /\ ReachedLimitOn(log[i].day - 1, i))
                => log[i].allowed

---------------------------------------------------------------------------
(* Specification SpecFetch: the retry loop of get_multi_timeframe_data,   *)
(* one step per attempt and one per sleep.  The upstream may answer each  *)
(* attempt differently.  Here pc is "fetching" | "waiting" | "returned",  *)
(* locals holds the loop variable attempt and the pending wait_time, call *)
(* is the upstream answer of the last attempt, clock counts the seconds   *)
(* slept, response is the map returned and log lists, per attempt, the    *)
(* timeframes collected and the wait that followed.                       *)

max_retries == 3

retry_delay == 2

RECURSIVE Pow(_, _)
Pow(base, exponent) == IF exponent = 0 THEN 1 ELSE base * Pow(base, exponent - 1)

\* the wait after a failed attempt with more attempts to go doubling from
\* the retry delay itself
WaitTime_FromDelay(attempt) == retry_delay * Pow(retry_delay, attempt)

\* line 132
WaitTime(attempt) == Pow(retry_delay, attempt)

EmptyMap == [tf \in {} |-> NoFrame]

InitFetch ==
    /\ pc = "fetching"
    /\ call = [op |-> "none"]
    /\ clock = 0
    /\ locals = [attempt |-> 0, wait_time |-> 0]
    /\ response = NoResponse
    /\ frame = NoFrame
    /\ log = << >>

\* one pass of the loop body, lines 60-138: the map collected is returned
\* when it has a timeframe; otherwise the exception raised at line 125 is
\* caught at line 127 and the loop waits or, on the last attempt, returns {}
FetchAttempt(upstream) ==
    LET data      == CollectTimeframes(upstream)
        attempt   == locals.attempt
        last      == ~(attempt < max_retries - 1)
        wait_time == IF data # EmptyMap \/ last THEN 0 ELSE WaitTime(attempt)
    IN  /\ pc = "fetching"
        /\ call' = [upstream |-> upstream]
        /\ log' = Append(log, [attempt |-> attempt, collected |-> DOMAIN data,
                               wait_time |-> wait_time])
        /\ IF data # EmptyMap
           THEN pc' = "returned" /\ response' = data /\ UNCHANGED locals
           ELSE IF last
           THEN pc' = "returned" /\ response' = EmptyMap /\ UNCHANGED locals
           ELSE /\ pc' = "waiting"
                /\ locals' = [locals EXCEPT !.wait_time = wait_time]
                /\ UNCHANGED response
        /\ UNCHANGED <<clock, frame>>

\* time.sleep(wait_time), line 134, and the next iteration of the loop
Sleep ==
    /\ pc = "waiting"
    /\ clock' = clock + locals.wait_time
    /\ locals' = [attempt |-> locals.attempt + 1, wait_time |-> 0]
    /\ pc' = "fetching"
    /\ UNCHANGED <<call, response, frame, log>>

NextFetch ==
    \/ \E upstream \in Upstreams : FetchAttempt(upstream)
    \/ Sleep

SpecFetch == InitFetch /\ [][NextFetch]_vars

\* The loop is straight-line code: every fetch is given a timeout and every
\* sleep is finite, so a step that can be taken is taken.
SpecFetchFair == SpecFetch /\ WF_vars(NextFetch)

\* attempts made so far and how they ended
FetchWithinThreeAttempts ==
    /\ pc \in { "fetching", "waiting", "returned" }
    /\ Len(log) <= 3
    /\ \A i \in 1..Len(log) :
           /\ log[i].attempt = i - 1
           /\ (i < Len(log) \/ pc = "waiting") =>
                  /\ log[i].collected = {}
                  /\ log[i].wait_time = (IF i = 1 THEN 1 ELSE 2)
    /\ pc = "fetching" => clock = SumSeq([i \in 1..Len(log) |-> log[i].wait_time])
    /\ pc = "returned" =>
           /\ Len(log) >= 1
           /\ clock = SumSeq([i \in 1..(Len(log) - 1) |-> log[i].wait_time])
           /\ DOMAIN response = log[Len(log)].collected
           /\ response = GetMultiTimeframeData(call.upstream)
           /\ IF response = EmptyMap
              THEN Len(log) = 3
              ELSE \E tf \in DOMAIN response : Len(response[tf].bars) >= 10

\* C30: get_multi_timeframe_data returns after at most 3 attempts and never
\* raises: it returns the collected map at the first attempt that yields a
\* timeframe of 10 bars or more, sleeps 1 s after the first failed attempt
\* and 2 s after the second, and returns {} after the third failed attempt.
C30_FetchTerminates ==
    /\ []FetchWithinThreeAttempts
    /\ <>(pc = "returned")

\* three failed attempts: {} returned after sleeping 1 s and 2 s
C30_Witness ==
    /\ pc = "returned"
    /\ Len(log) = 3
    /\ response = EmptyMap
    /\ clock = 3
    /\ locals.attempt = 2

=============================================================================
